---- MODULE Spec2Model ----
(***************************************************************************)
(* Logo search proof of concept: the decoupled ingestion script            *)
(* (lambda/db-schema.ts), the repository over the Photos, PhotoLogos and   *)
(* LogoSummaries tables (logo-index-decoupled), the helpers of             *)
(* src/lib/dynamo.ts and the HTTP GET routes.                              *)
(*                                                                         *)
(* Strings are sequences of one-character strings, so that the string      *)
(* functions of the program are computed character by character.           *)
(* Confidence scores are integers (a score s stands for s / MaxConf).      *)
(***************************************************************************)
EXTENDS Integers, Sequences, FiniteSets, TLC

(***************************************************************************)
(* Bounds of the model.                                                    *)
(***************************************************************************)
\* longest input string of the string-function specification
MaxStrLen == 3
\* ingestion runs of main() over the same bucket
MaxRuns == 2
\* BatchWrite requests one writeMappingBatch call may send before the
\* database accepts everything that is left
MaxSends == 3

(***************************************************************************)
(* Characters.  One representative per class the regular expressions of    *)
(* the program tell apart: [a-z0-9], [A-Z], "_", "-", ".", "/", white      *)
(* space, "#" and any other character.                                     *)
(***************************************************************************)
LowerAlnum == {"a", "b", "h", "o", "p", "s", "t", "0", "1", "2", "3", "4", "5", "6", "7", "8", "9"}
Upper == {"A", "B"}
WhiteSpace == {" "}

ToLowerChar(c) ==
  CASE c = "A" -> "a"
    [] c = "B" -> "b"
    [] OTHER -> c

\* String.prototype.toLowerCase
ToLowerCase(s) == [i \in 1..Len(s) |-> ToLowerChar(s[i])]

RECURSIVE TrimStart(_)
TrimStart(s) ==
  IF s # <<>> /\ Head(s) \in WhiteSpace THEN TrimStart(Tail(s)) ELSE s

RECURSIVE TrimEnd(_)
TrimEnd(s) ==
  IF s # <<>> /\ s[Len(s)] \in WhiteSpace
    THEN TrimEnd(SubSeq(s, 1, Len(s) - 1))
    ELSE s

\* String.prototype.trim
Trim(s) == TrimEnd(TrimStart(s))

\* s.replace(/[^a-z0-9]+/g, "-"): every maximal run of characters outside
\* [a-z0-9] becomes one "-"
RECURSIVE ReplaceRuns(_, _)
ReplaceRuns(s, inRun) ==
  IF s = <<>> THEN <<>>
  ELSE IF Head(s) \in LowerAlnum
    THEN <<Head(s)>> \o ReplaceRuns(Tail(s), FALSE)
    ELSE (IF inRun THEN <<>> ELSE <<"-">>) \o ReplaceRuns(Tail(s), TRUE)

RECURSIVE StripLeadingDashes(_)
StripLeadingDashes(s) ==
  IF s # <<>> /\ Head(s) = "-" THEN StripLeadingDashes(Tail(s)) ELSE s

RECURSIVE StripTrailingDashes(_)
StripTrailingDashes(s) ==
  IF s # <<>> /\ s[Len(s)] = "-"
    THEN StripTrailingDashes(SubSeq(s, 1, Len(s) - 1))
    ELSE s

\* normalizeLogoName of src/lib/dynamo.ts
normalizeLogoName(name) ==
  StripTrailingDashes(StripLeadingDashes(
    ReplaceRuns(ToLowerCase(Trim(name)), FALSE)))

\* process.env.S3_PREFIX ?? "photos/"
S3_PREFIX == <<"p", "h", "o", "t", "o", "s", "/">>

StartsWith(s, p) == Len(s) >= Len(p) /\ SubSeq(s, 1, Len(p)) = p

EndsWith(s, p) ==
  Len(s) >= Len(p) /\ SubSeq(s, Len(s) - Len(p) + 1, Len(s)) = p

\* the positions of s that hold "."
DotPositions(s) == {i \in 1..Len(s) : s[i] = "."}

Max(S) == CHOOSE x \in S : \A y \in S : y <= x

\* s.replace(/\.[^/.]+$/, ""): the last "." and what follows it are removed
\* when at least one character follows and none of them is "/"
StripExtension(s) ==
  IF DotPositions(s) = {} THEN s
  ELSE LET d == Max(DotPositions(s)) IN
    IF d < Len(s) /\ \A i \in (d + 1)..Len(s) : s[i] # "/"
      THEN SubSeq(s, 1, d - 1)
      ELSE s

\* [a-zA-Z0-9_-]
IdChar(c) == c \in LowerAlnum \cup Upper \cup {"_", "-"}

\* s.replace(/[^a-zA-Z0-9_-]/g, "-")
ReplaceNonIdChars(s) == [i \in 1..Len(s) |-> IF IdChar(s[i]) THEN s[i] ELSE "-"]

\* keyToPhotoId of lambda/db-schema.ts
keyToPhotoId(key) ==
  LET trimmed == IF StartsWith(key, S3_PREFIX)
                   THEN SubSeq(key, Len(S3_PREFIX) + 1, Len(key))
                   ELSE key
      withoutExt == StripExtension(trimmed)
  IN ReplaceNonIdChars(withoutExt)

(***************************************************************************)
(* Values as the database and the Vision client hand them over: a missing  *)
(* attribute reads as undefined; a number may be stored as a string.       *)
(***************************************************************************)
Undefined == [t |-> "undefined"]
Null == [t |-> "null"]
NaN == [t |-> "NaN"]
Infinity == [t |-> "Infinity"]
Str(s) == [t |-> "string", s |-> s]
Num(n) == [t |-> "number", n |-> n]

\* a ?? b
Coalesce(a, b) == IF a \in {Undefined, Null} THEN b ELSE a

Digits == <<"0", "1", "2", "3", "4", "5", "6", "7", "8", "9">>
IsDigit(c) == \E d \in 1..Len(Digits) : Digits[d] = c
DigitValue(c) == (CHOOSE d \in 1..Len(Digits) : Digits[d] = c) - 1

\* Number.prototype.toString of a non-negative integer
RECURSIVE NumToString(_)
NumToString(n) ==
  IF n < 10 THEN <<Digits[n + 1]>>
  ELSE NumToString(n \div 10) \o <<Digits[(n % 10) + 1]>>

\* String.prototype.padStart(width, "0")
RECURSIVE PadStart(_, _)
PadStart(s, width) == IF Len(s) >= width THEN s ELSE PadStart(<<"0">> \o s, width)

RECURSIVE DigitsValue(_, _)
DigitsValue(s, acc) ==
  IF s = <<>> THEN acc ELSE DigitsValue(Tail(s), 10 * acc + DigitValue(Head(s)))

\* new Date().toISOString() at time n, and new Date(s).getTime(): the
\* instant n is written "T" followed by its decimal digits; any other string
\* is an invalid date, whose time is NaN
toISOString(n) == <<"T">> \o NumToString(n)

getTime(s) ==
  IF Len(s) >= 2 /\ Head(s) = "T" /\ \A i \in 2..Len(s) : IsDigit(s[i])
    THEN Num(DigitsValue(Tail(s), 0))
    ELSE NaN

(***************************************************************************)
(* The environment of the ingestion script: the S3 bucket and the answers  *)
(* of the Vision API.                                                      *)
(***************************************************************************)
\* the objects a bucket may hold under the prefix, in S3's listing order:
\* two photos that differ in their extension only, a third photo and the
\* placeholder object of the folder itself
KeyListing ==
  << S3_PREFIX,
     S3_PREFIX \o <<"a", ".", "a">>,
     S3_PREFIX \o <<"a", ".", "b">>,
     S3_PREFIX \o <<"b", ".", "a">> >>

RECURSIVE SubSequences(_)
SubSequences(s) ==
  IF s = <<>> THEN {<<>>}
  ELSE LET rest == SubSequences(Tail(s))
       IN rest \cup {<<Head(s)>> \o r : r \in rest}

\* a bucket holds at most two of them
Buckets == {b \in SubSequences(KeyListing) : Len(b) <= 2}

Range(s) == {s[i] : i \in 1..Len(s)}

Ann(d, sc) == [description |-> d, score |-> sc]

\* the annotation lists Vision may answer with for one photo
VisionResults ==
  { <<>>,
    <<Ann(Str(<<"A">>), Num(1))>>,
    <<Ann(Str(<<"a">>), Num(2))>>,
    <<Ann(Str(<<"a">>), Num(1)), Ann(Str(<<"A">>), Num(2))>>,
    <<Ann(Str(<<"a">>), Num(2)), Ann(Str(<<"b">>), Num(1))>>,
    <<Ann(Str(<<>>), Num(2)), Ann(Str(<<"b">>), Undefined)>> }

(***************************************************************************)
(* State.                                                                  *)
(***************************************************************************)
VARIABLES
  bucket,        \* the S3 listing under the prefix
  vision,        \* the Vision API's annotations of each object
  photosTbl,     \* Photos table: photoId -> item
  photoLogosTbl, \* PhotoLogos table: <<logoSlug, sortKey>> -> item
  summariesTbl,  \* LogoSummaries table: logoSlug -> item
  pc,            \* where main() stands
  run,           \* runs of main() started so far
  keys,          \* the keys listPhotos returned
  idx,           \* position of the for loop of main() in keys
  logos,         \* the detections of the current photo
  clock,         \* the time; now of the current savePhotoDecoupled call
  batches,       \* the chunks savePhotoDecoupled has not written yet
  requestItems,  \* the items of the next BatchWrite request
  sends,         \* BatchWrite requests of the current writeMappingBatch call
  pending,       \* the entries of slugSummaries not yet written
  attempted,     \* the keys main() logged "Processing ..." for, in order
  failed,        \* the keys main() logged "Failed to process ..." for
  throws,        \* failed service calls so far
  call,          \* the last repository function or route called
  ret,           \* what the repository function returned or threw
  resp,          \* what the route handler answered
  input,         \* the strings given to the string functions
  output,        \* what the string functions returned
  singleTbl,     \* the single table (DYNAMO_TABLE): <<PK, SK>> -> item
  singleRun,     \* where main() of the single-table script stands
  conc,          \* where each of two concurrent runs of main() stands
  gallery        \* the Gallery component: its props, its state, what it shows

\* what is given to the decoupled script and to the web application over
\* the three tables: the bucket, the answers of Vision, the single table
\* with the script that fills it, the processes that run the decoupled
\* script side by side, and the gallery in the browser
singleVars == <<singleTbl, singleRun>>
envVars == <<bucket, vision, singleVars, conc, gallery>>
dbVars == <<photosTbl, photoLogosTbl, summariesTbl>>
ingestVars == <<pc, run, keys, idx, logos, clock, batches, requestItems,
                sends, pending, attempted, failed, throws>>
repoVars == <<call, ret, resp>>
strVars == <<input, output>>
otherVars == <<repoVars, strVars>>

(***************************************************************************)
(* The ingestion script, lambda/db-schema.ts.                              *)
(***************************************************************************)
\* Number(process.env.INGEST_LIMIT ?? 100)
MAX_ITEMS == 100
\* the page size S3 allows
S3_MAX_KEYS == 1000
\* mapping writes per BatchWrite request
BATCH_SIZE == 25
\* failed service calls of one behaviour
MaxThrows == 2

Min(a, b) == IF a <= b THEN a ELSE b

\* chunk(items, size)
RECURSIVE chunk(_, _)
chunk(items, size) ==
  IF items = <<>> THEN <<>>
  ELSE <<SubSeq(items, 1, Min(size, Len(items)))>>
         \o chunk(SubSeq(items, Min(size, Len(items)) + 1, Len(items)), size)

\* the do-while loop of listPhotos over the pages of the listing
RECURSIVE ListPages(_, _)
ListPages(rest, acc) ==
  LET maxKeys == Min(MAX_ITEMS, S3_MAX_KEYS)
      page == SubSeq(rest, 1, Min(maxKeys, Len(rest)))
      batchKeys == SelectSeq(page, LAMBDA k : k # <<>> /\ ~EndsWith(k, <<"/">>))
      acc2 == acc \o batchKeys
      continuationToken == Len(rest) > maxKeys
  IN IF Len(acc2) >= MAX_ITEMS \/ ~continuationToken
       THEN acc2
       ELSE ListPages(SubSeq(rest, maxKeys + 1, Len(rest)), acc2)

listPhotos(listing) ==
  LET all == ListPages(listing, <<>>)
  IN SubSeq(all, 1, Min(MAX_ITEMS, Len(all)))

\* annotation.description is truthy
HasDescription(a) == a.description.t = "string" /\ a.description.s # <<>>

\* detectLogosForKey: the annotations with a description, numbered from 0
detectLogos(annotations) ==
  LET kept == SelectSeq(annotations, HasDescription)
  IN [i \in 1..Len(kept) |->
        [name |-> Coalesce(kept[i].description, Str(<<>>)).s,
         slug |-> normalizeLogoName(Coalesce(kept[i].description, Str(<<>>)).s),
         confidence |-> Coalesce(kept[i].score, Num(0)).n,
         detectionIndex |-> i - 1]]

\* process.env.S3_PUBLIC_BASE_URL, without its final "/"
publicBaseUrl == Str(<<"h">>)

buildPublicUrl(key) ==
  IF publicBaseUrl = Undefined THEN Undefined
  ELSE Str(publicBaseUrl.s \o <<"/">> \o key)

\* a sort key made of the photo id alone
sortKeyOfPhoto(photoId, detectionIndex) == photoId

sortKeyOf(photoId, detectionIndex) ==
  photoId \o <<"#">> \o PadStart(NumToString(detectionIndex), 4)

\* the item savePhotoDecoupled puts in the Photos table
photoItem(key, now) ==
  [photoId |-> Str(keyToPhotoId(key)),
   s3Key |-> Str(key),
   publicUrl |-> buildPublicUrl(key),
   createdAt |-> Str(toISOString(now)),
   updatedAt |-> Str(toISOString(now))]

\* a mapping item whose sort key would also hold the time of the write
mappingItemOfRun(photoId, logo, now) ==
  [logoSlug |-> Str(logo.slug),
   sortKey |-> Str(sortKeyOf(photoId, logo.detectionIndex) \o <<"#">> \o toISOString(now)),
   photoId |-> Str(photoId),
   logoName |-> Str(logo.name),
   confidence |-> Num(logo.confidence),
   detectionIndex |-> Num(logo.detectionIndex),
   createdAt |-> Str(toISOString(now))]

\* the item savePhotoDecoupled builds for one detection
mappingItem(photoId, logo, now) ==
  [logoSlug |-> Str(logo.slug),
   sortKey |-> Str(sortKeyOf(photoId, logo.detectionIndex)),
   photoId |-> Str(photoId),
   logoName |-> Str(logo.name),
   confidence |-> Num(logo.confidence),
   detectionIndex |-> Num(logo.detectionIndex),
   createdAt |-> Str(toISOString(now))]

mappingWrites(key, ls, now) ==
  [i \in 1..Len(ls) |-> mappingItem(keyToPhotoId(key), ls[i], now)]

\* a list with one entry for every detection, not one for every slug
RECURSIVE slugSummariesOfDetections(_, _)
slugSummariesOfDetections(ls, acc) ==
  IF ls = <<>> THEN acc
  ELSE slugSummariesOfDetections(
         Tail(ls),
         Append(acc, [slug |-> Head(ls).slug,
                      maxConfidence |-> Head(ls).confidence,
                      name |-> Head(ls).name]))

\* the Map slugSummaries, as the sequence of its entries in insertion order
RECURSIVE slugSummaries(_, _)
slugSummaries(ls, acc) ==
  IF ls = <<>> THEN acc
  ELSE LET logo == Head(ls)
           at == {i \in 1..Len(acc) : acc[i].slug = logo.slug}
           entry == [slug |-> logo.slug, maxConfidence |-> logo.confidence,
                     name |-> logo.name]
       IN IF at = {}
            THEN slugSummaries(Tail(ls), Append(acc, entry))
            ELSE LET i == CHOOSE j \in at : TRUE
                 IN IF logo.confidence > acc[i].maxConfidence
                      THEN slugSummaries(Tail(ls), [acc EXCEPT ![i] = entry])
                      ELSE slugSummaries(Tail(ls), acc)

(***************************************************************************)
(* DynamoDB.                                                               *)
(***************************************************************************)
\* a put that would leave the item alone in its table
PutItemAlone(tbl, key, item) == [k \in {key} |-> item]

\* PutItem: the item replaces the one with the same key
PutItem(tbl, key, item) ==
  [k \in DOMAIN tbl \cup {key} |-> IF k = key THEN item ELSE tbl[k]]

mappingKey(item) == <<item.logoSlug.s, item.sortKey.s>>

\* the PutRequests of the positions in done, applied in order
RECURSIVE PutAll(_, _, _)
PutAll(tbl, items, done) ==
  IF items = <<>> THEN tbl
  ELSE PutAll(IF 1 \in done
                THEN PutItem(tbl, mappingKey(Head(items)), Head(items))
                ELSE tbl,
              Tail(items), {i - 1 : i \in done \ {1}})

NoSummary ==
  [logoSlug |-> Undefined, displayName |-> Undefined,
   topConfidence |-> Undefined, firstDetectedAt |-> Undefined,
   lastDetectedAt |-> Undefined, totalPhotos |-> Undefined]

\* if_not_exists(attribute, value)
if_not_exists(attr, value) == IF attr = Undefined THEN value ELSE attr

\* SET attribute = :inc, in place of ADD: the number the item held is lost
SetNumber(attr, inc) == Num(inc)

\* ADD attribute :inc
AddNumber(attr, inc) == IF attr = Undefined THEN Num(inc) ELSE Num(attr.n + inc)

\* the UpdateCommand of savePhotoDecoupled on the item of summary.slug
UpdateSummary(tbl, summary, now) ==
  LET old == IF summary.slug \in DOMAIN tbl THEN tbl[summary.slug] ELSE NoSummary
      new == [logoSlug |-> Str(summary.slug),
              displayName |-> if_not_exists(old.displayName, Str(summary.name)),
              topConfidence |->
                if_not_exists(old.topConfidence, Num(summary.maxConfidence)),
              firstDetectedAt |->
                if_not_exists(old.firstDetectedAt, Str(toISOString(now))),
              lastDetectedAt |-> Str(toISOString(now)),
              totalPhotos |-> AddNumber(old.totalPhotos, 1)]
  IN PutItem(tbl, summary.slug, new)

(***************************************************************************)
(* The repository over the three tables (logo-index-decoupled).            *)
(***************************************************************************)
\* a value is falsy: undefined, null or the empty string (none of the
\* values tested this way is a number)
Falsy(v) == v \in {Undefined, Null, Str(<<>>)}

\* asString
asString(value) ==
  CASE value.t = "string" -> value
    [] value.t = "number" -> Str(NumToString(value.n))
    [] value.t = "NaN" -> Str(<<"N", "a", "N">>)
    [] value.t = "Infinity" -> Str(<<"I", "n", "f", "i", "n", "i", "t", "y">>)
    [] OTHER -> Undefined

\* Number(value) of a string: white space around it is dropped; the empty
\* string is 0, a string of digits its value, "Infinity" is Infinity and
\* any other string of the model is NaN
StringToNumber(s) ==
  LET body == Trim(s)
  IN IF body = <<>> THEN Num(0)
     ELSE IF \A i \in 1..Len(body) : IsDigit(body[i])
       THEN Num(DigitsValue(body, 0))
     ELSE IF body = <<"I", "n", "f", "i", "n", "i", "t", "y">> THEN Infinity
     ELSE NaN

\* Number(value)
ToNumber(value) ==
  CASE value.t \in {"number", "NaN", "Infinity"} -> value
    [] value.t = "string" -> StringToNumber(value.s)
    [] value.t = "null" -> Num(0)
    [] OTHER -> NaN

\* Number.isFinite
IsFinite(v) == v.t = "number"

\* asNumber without the test of Number.isFinite
asNumberUnchecked(value) ==
  IF value.t \in {"number", "NaN", "Infinity"} THEN value ELSE ToNumber(value)

\* asNumber
asNumber(value) ==
  LET num == IF value.t \in {"number", "NaN", "Infinity"}
               THEN value ELSE ToNumber(value)
  IN IF IsFinite(num) THEN num ELSE Undefined

\* process.env.S3_PUBLIC_BASE_URL of the web application
S3_PUBLIC_BASE_URL == Str(<<"h", "/">>)

\* base.replace(/\/$/, "")
RemoveFinalSlash(s) ==
  IF s # <<>> /\ s[Len(s)] = "/" THEN SubSeq(s, 1, Len(s) - 1) ELSE s

\* resolvePublicUrl of src/lib/dynamo.ts
resolvePublicUrl(publicUrl, s3Key) ==
  IF ~Falsy(publicUrl) THEN publicUrl
  ELSE IF Falsy(s3Key) THEN Null
  ELSE IF Falsy(S3_PUBLIC_BASE_URL) THEN Null
  ELSE Str(RemoveFinalSlash(S3_PUBLIC_BASE_URL.s) \o <<"/">> \o s3Key.s)

\* mapPhotoItem
mapPhotoItem(item) ==
  [id |-> Coalesce(asString(item.photoId), Str(<<>>)).s,
   imageUrl |-> resolvePublicUrl(asString(item.publicUrl), asString(item.s3Key)),
   s3Key |-> asString(item.s3Key),
   logos |-> <<>>,
   createdAt |-> asString(item.createdAt),
   matchConfidence |-> Undefined]

\* mapLogoMapping (bounding polygons are not part of the model)
mapLogoMapping(item) ==
  LET name == Coalesce(asString(item.logoName), Str(<<>>)).s
  IN [name |-> name,
      slug |-> Coalesce(asString(item.logoSlug), Str(normalizeLogoName(name))).s,
      confidence |-> Coalesce(asNumber(item.confidence), Num(0)),
      detectionIndex |-> asNumber(item.detectionIndex)]

\* mapLogoSummary
mapLogoSummary(item) ==
  LET slug == Coalesce(asString(item.logoSlug), Str(<<>>)).s
  IN [slug |-> slug,
      name |-> Coalesce(asString(item.displayName), Str(slug)).s,
      totalPhotos |-> ToNumber(Coalesce(item.totalPhotos, Num(0))),
      topConfidence |-> asNumber(item.topConfidence)]

(***************************************************************************)
(* Orders on strings.                                                      *)
(***************************************************************************)
\* the characters of the model in code point order (the order of the sort
\* keys of a Query) and in collation order (localeCompare)
CodePoints ==
  <<" ", "!", "#", "-", ".", "/", "0", "1", "2", "3", "4", "5", "6", "7",
    "8", "9", "A", "B", "I", "N", "T", "_", "a", "b", "f", "h", "i", "n",
    "o", "p", "s", "t", "y">>

Collation ==
  <<"_", "-", " ", "!", "/", ".", "#", "0", "1", "2", "3", "4", "5", "6",
    "7", "8", "9", "a", "A", "b", "B", "f", "h", "i", "I", "n", "N", "o",
    "p", "s", "t", "T", "y">>

Rank(order, c) == CHOOSE i \in 1..Len(order) : order[i] = c

\* -1, 0 or 1 as s comes before, with or after u, character by character
RECURSIVE CompareStrings(_, _, _)
CompareStrings(order, s, u) ==
  IF s = <<>> /\ u = <<>> THEN 0
  ELSE IF s = <<>> THEN -1
  ELSE IF u = <<>> THEN 1
  ELSE IF Rank(order, Head(s)) < Rank(order, Head(u)) THEN -1
  ELSE IF Rank(order, Head(s)) > Rank(order, Head(u)) THEN 1
  ELSE CompareStrings(order, Tail(s), Tail(u))

\* a.localeCompare(b)
localeCompare(a, b) == CompareStrings(Collation, a, b)

(***************************************************************************)
(* Array.prototype.sort, as Node's V8 sorts an array of fewer than 64      *)
(* elements: the run the array starts with is found (and reversed when it  *)
(* descends), then the other elements are inserted by binary search.  For  *)
(* a consistent comparator this is the stable sort of the language         *)
(* standard; for an inconsistent one the standard leaves the order to the  *)
(* implementation, and this is the order the implementation produces.      *)
(***************************************************************************)
\* the comparator of fetchAllPhotos: newest first when both photos have a
\* createdAt, by id otherwise
comparePhotos(a, b) ==
  IF ~Falsy(a.createdAt) /\ ~Falsy(b.createdAt)
    THEN LET tb == getTime(b.createdAt.s)
             ta == getTime(a.createdAt.s)
         IN IF IsFinite(tb) /\ IsFinite(ta) THEN Num(tb.n - ta.n) ELSE NaN
    ELSE Num(localeCompare(a.id, b.id))

\* the comparator of fetchAllLogos: most photos first, then by name
compareLogos(a, b) ==
  LET diff == IF IsFinite(a.totalPhotos) /\ IsFinite(b.totalPhotos)
                THEN Num(b.totalPhotos.n - a.totalPhotos.n) ELSE NaN
  IN IF IsFinite(diff) /\ diff.n # 0 THEN diff
     ELSE Num(localeCompare(a.name, b.name))

\* the number sort uses for comparefn(x, y): NaN counts as 0
SortCompare(fn, x, y) ==
  LET v == IF fn = "photos" THEN comparePhotos(x, y) ELSE compareLogos(x, y)
  IN IF IsFinite(v) THEN v.n ELSE 0

Reverse(s) == [i \in 1..Len(s) |-> s[Len(s) + 1 - i]]

\* the length of the run that starts the array, from its position pos on
RECURSIVE RunLength(_, _, _, _)
RunLength(fn, arr, pos, isDescending) ==
  IF pos > Len(arr) THEN pos - 1
  ELSE LET order == SortCompare(fn, arr[pos], arr[pos - 1])
       IN IF (isDescending /\ order >= 0) \/ (~isDescending /\ order < 0)
            THEN pos - 1
            ELSE RunLength(fn, arr, pos + 1, isDescending)

\* where the binary search puts pivot among arr[left + 1 .. right]
RECURSIVE InsertionPoint(_, _, _, _, _)
InsertionPoint(fn, arr, pivot, left, right) ==
  IF left >= right THEN left
  ELSE LET mid == left + ((right - left) \div 2)
       IN IF SortCompare(fn, pivot, arr[mid + 1]) < 0
            THEN InsertionPoint(fn, arr, pivot, left, mid)
            ELSE InsertionPoint(fn, arr, pivot, mid + 1, right)

\* arr[1 .. start] is sorted; the elements after it are inserted in turn
RECURSIVE BinaryInsertionSort(_, _, _)
BinaryInsertionSort(fn, arr, start) ==
  IF start >= Len(arr) THEN arr
  ELSE LET pivot == arr[start + 1]
           at == InsertionPoint(fn, arr, pivot, 0, start)
           moved == SubSeq(arr, 1, at) \o <<pivot>> \o SubSeq(arr, at + 1, start)
                      \o SubSeq(arr, start + 2, Len(arr))
       IN BinaryInsertionSort(fn, moved, start + 1)

sort(fn, arr) ==
  IF Len(arr) < 2 THEN arr
  ELSE LET isDescending == SortCompare(fn, arr[2], arr[1]) < 0
           runLength == RunLength(fn, arr, 3, isDescending)
           made == IF isDescending
                     THEN Reverse(SubSeq(arr, 1, runLength))
                            \o SubSeq(arr, runLength + 1, Len(arr))
                     ELSE arr
       IN BinaryInsertionSort(fn, made, runLength)

(***************************************************************************)
(* What the database answers to the read commands of the repository.       *)
(***************************************************************************)
\* the sequences that list the elements of the set S once each
RECURSIVE Orders(_)
Orders(S) ==
  IF S = {} THEN {<<>>}
  ELSE UNION {{<<x>> \o rest : rest \in Orders(S \ {x})} : x \in S}

\* the items one ScanCommand answers with at most: the database stops at
\* 1 MB of data and sets LastEvaluatedKey, which the repository does not read
ScanPageSize == 4

\* the first page of a scan
FirstPage(items) == SubSeq(items, 1, Min(Len(items), ScanPageSize))

\* ScanCommand: the first page of the items of the table, in an order the
\* database chooses
Scans(tbl) ==
  {FirstPage([i \in 1..Len(o) |-> tbl[o[i]]]) : o \in Orders(DOMAIN tbl)}

\* the keys in K in ascending order of their sort key
RECURSIVE BySortKey(_)
BySortKey(K) ==
  IF K = {} THEN <<>>
  ELSE LET least == CHOOSE k \in K :
                      \A o \in K : CompareStrings(CodePoints, k[2], o[2]) <= 0
       IN <<least>> \o BySortKey(K \ {least})

\* a query that would answer with the items of every partition
QueryAnyPartition(tbl, slug) ==
  LET ks == BySortKey(DOMAIN tbl)
  IN [i \in 1..Len(ks) |-> tbl[ks[i]]]

\* QueryCommand on PhotoLogos, logoSlug = :slug: the items of the
\* partition in ascending order of sortKey
Query(tbl, slug) ==
  LET ks == BySortKey({k \in DOMAIN tbl : k[1] = slug})
  IN [i \in 1..Len(ks) |-> tbl[ks[i]]]

\* BatchGetCommand on Photos: the items found for the keys in served; the
\* database may leave keys unprocessed, and reports no item for them
BatchGet(tbl, photoIds, served) ==
  LET found == SelectSeq(photoIds, LAMBDA id : id \in served /\ id \in DOMAIN tbl)
  IN [i \in 1..Len(found) |-> tbl[found[i]]]

(***************************************************************************)
(* fetchAllPhotos, fetchAllLogos, fetchPhotosByLogo.                       *)
(***************************************************************************)
\* photoMap.get(photoId): the position of the photo in photos, 0 if none
photoMapGet(photos, photoId) ==
  LET at == {i \in 1..Len(photos) : photos[i].id = photoId}
  IN IF at = {} THEN 0 ELSE Max(at)

\* the loop of fetchAllPhotos that groups the logos by photoId
RECURSIVE groupLogos(_, _)
groupLogos(photos, mappingItems) ==
  IF mappingItems = <<>> THEN photos
  ELSE LET item == Head(mappingItems)
           photoId == asString(item.photoId)
           at == IF Falsy(photoId) THEN 0 ELSE photoMapGet(photos, photoId.s)
       IN IF at = 0
            THEN groupLogos(photos, Tail(mappingItems))
            ELSE groupLogos(
                   [photos EXCEPT ![at].logos = Append(@, mapLogoMapping(item))],
                   Tail(mappingItems))

\* fetchAllPhotos, given what the two scans answered
fetchAllPhotos(photoItems, mappingItems) ==
  IF Len(photoItems) = 0 THEN <<>>
  ELSE LET photos == [i \in 1..Len(photoItems) |-> mapPhotoItem(photoItems[i])]
       IN sort("photos", groupLogos(photos, mappingItems))

\* fetchAllLogos, given what the scan answered
fetchAllLogos(items) ==
  sort("logos", [i \in 1..Len(items) |-> mapLogoSummary(items[i])])

\* uniquePhotoIds of fetchPhotosByLogo
RECURSIVE uniquePhotoIds(_, _)
uniquePhotoIds(mappingItems, acc) ==
  IF mappingItems = <<>> THEN acc
  ELSE LET photoId == asString(Head(mappingItems).photoId)
       IN IF Falsy(photoId) \/ photoId.s \in Range(acc)
            THEN uniquePhotoIds(Tail(mappingItems), acc)
            ELSE uniquePhotoIds(Tail(mappingItems), Append(acc, photoId.s))

\* a loop that would keep the confidence of the last mapping of the photo,
\* not the highest
RECURSIVE photoIdConfidenceOfLast(_, _, _)
photoIdConfidenceOfLast(mappingItems, id, existing) ==
  IF mappingItems = <<>> THEN existing
  ELSE LET item == Head(mappingItems)
           photoId == asString(item.photoId)
           confidence == asNumber(item.confidence)
       IN IF ~Falsy(photoId) /\ photoId.s = id /\ confidence # Undefined
            THEN photoIdConfidenceOfLast(Tail(mappingItems), id, confidence)
            ELSE photoIdConfidenceOfLast(Tail(mappingItems), id, existing)

\* photoIdConfidences.get(id) after the loop of fetchPhotosByLogo
RECURSIVE photoIdConfidence(_, _, _)
photoIdConfidence(mappingItems, id, existing) ==
  IF mappingItems = <<>> THEN existing
  ELSE LET item == Head(mappingItems)
           photoId == asString(item.photoId)
           confidence == asNumber(item.confidence)
       IN IF ~Falsy(photoId) /\ photoId.s = id /\ confidence # Undefined
               /\ (existing = Undefined \/ confidence.n > existing.n)
            THEN photoIdConfidence(Tail(mappingItems), id, confidence)
            ELSE photoIdConfidence(Tail(mappingItems), id, existing)

\* the second half of fetchPhotosByLogo: the photo records are built from
\* the mappings of the query and the items of the batch get
buildPhotos(mappingItems, ids, photoItems) ==
  LET photoMap == SelectSeq(photoItems, LAMBDA item : ~Falsy(asString(item.photoId)))
      at(id) == {i \in 1..Len(photoMap) : asString(photoMap[i].photoId).s = id}
      cloned(id) ==
        [mapPhotoItem(photoMap[Max(at(id))]) EXCEPT
           !.logos = LET mine == SelectSeq(mappingItems,
                                  LAMBDA item : asString(item.photoId) = Str(id))
                     IN [i \in 1..Len(mine) |-> mapLogoMapping(mine[i])],
           !.matchConfidence = photoIdConfidence(mappingItems, id, Undefined)]
      kept == SelectSeq(ids, LAMBDA id : at(id) # {})
  IN [i \in 1..Len(kept) |-> cloned(kept[i])]

\* fetchPhotosByLogo on the two tables; served are the keys the batch get
\* does not leave unprocessed
fetchPhotosByLogo(logoNameOrSlug, photos, photoLogos, served) ==
  LET slug == normalizeLogoName(logoNameOrSlug)
      mappingItems == Query(photoLogos, slug)
      ids == uniquePhotoIds(mappingItems, <<>>)
  IN IF Len(mappingItems) = 0 THEN <<>>
     ELSE IF Len(ids) = 0 THEN <<>>
     ELSE buildPhotos(mappingItems, ids, BatchGet(photos, ids, served))

\* what a repository call produces
Returned(value) == [ok |-> TRUE, value |-> value]
Thrown(error) == [ok |-> FALSE, error |-> error]

\* the errors a command of the database client rejects with
Errors == {"AccessDeniedException", "ProvisionedThroughputExceededException"}

fetchAllPhotosOutcomes ==
  {Returned(fetchAllPhotos(p, m)) :
     p \in Scans(photosTbl), m \in Scans(photoLogosTbl)}
  \cup {Thrown(e) : e \in Errors}

fetchAllLogosOutcomes ==
  {Returned(fetchAllLogos(l)) : l \in Scans(summariesTbl)}
  \cup {Thrown(e) : e \in Errors}

fetchPhotosByLogoOutcomes(logoNameOrSlug) ==
  {Returned(fetchPhotosByLogo(logoNameOrSlug, photosTbl, photoLogosTbl, served)) :
     served \in SUBSET DOMAIN photosTbl}
  \cup {Thrown(e) : e \in Errors}

(***************************************************************************)
(* main() of the ingestion script, one action per awaited call.            *)
(***************************************************************************)
\* a catch block that would throw the error again: main() rejects and the
\* process exits
CaughtAndRethrown ==
  /\ failed' = failed \cup {keys[idx]}
  /\ throws' = throws + 1
  /\ idx' = idx
  /\ pc' = "fatal"
  /\ logos' = <<>>
  /\ batches' = <<>>
  /\ requestItems' = <<>>
  /\ sends' = 0
  /\ pending' = <<>>

\* the catch block of main(): the error is logged and the loop goes on
Caught ==
  /\ failed' = failed \cup {keys[idx]}
  /\ throws' = throws + 1
  /\ idx' = idx + 1
  /\ pc' = "loop"
  /\ logos' = <<>>
  /\ batches' = <<>>
  /\ requestItems' = <<>>
  /\ sends' = 0
  /\ pending' = <<>>

\* savePhotoDecoupled returned: "Stored ... logos", next key
Stored ==
  /\ idx' = idx + 1
  /\ pc' = "loop"
  /\ logos' = <<>>
  /\ batches' = <<>>
  /\ requestItems' = <<>>
  /\ sends' = 0
  /\ pending' = <<>>

None == [t |-> "none"]

\* the answers of the web application before the run are history
Forget ==
  /\ call' = None
  /\ ret' = None
  /\ resp' = None

\* main() starts: listPhotos answers
StartRun ==
  /\ pc \in {"idle", "done", "fatal"}
  /\ run < MaxRuns
  /\ run' = run + 1
  /\ keys' = listPhotos(bucket)
  /\ idx' = 1
  /\ attempted' = <<>>
  /\ failed' = {}
  /\ pc' = "loop"
  /\ Forget
  /\ UNCHANGED <<logos, clock, batches, requestItems, sends, pending, throws>>
  /\ UNCHANGED <<strVars, envVars, dbVars>>

\* main() starts and listPhotos throws: main().catch logs the fatal error
\* and the process exits with status 1
ListFails ==
  /\ pc \in {"idle", "done", "fatal"}
  /\ run < MaxRuns
  /\ throws < MaxThrows
  /\ run' = run + 1
  /\ keys' = <<>>
  /\ idx' = 1
  /\ attempted' = <<>>
  /\ failed' = {}
  /\ throws' = throws + 1
  /\ pc' = "fatal"
  /\ Forget
  /\ UNCHANGED <<logos, clock, batches, requestItems, sends, pending>>
  /\ UNCHANGED <<strVars, envVars, dbVars>>

\* the for loop takes the next key and detectLogosForKey answers
Detect ==
  /\ pc = "loop"
  /\ idx <= Len(keys)
  /\ attempted' = Append(attempted, keys[idx])
  /\ logos' = detectLogos(vision[keys[idx]])
  /\ pc' = "save"
  /\ UNCHANGED <<run, keys, idx, clock, batches, requestItems, sends, pending,
                 failed, throws>>
  /\ UNCHANGED <<otherVars, envVars, dbVars>>

\* the for loop takes the next key and detectLogosForKey throws (the S3
\* get, a missing body or the Vision call)
DetectFails ==
  /\ pc = "loop"
  /\ idx <= Len(keys)
  /\ throws < MaxThrows
  /\ attempted' = Append(attempted, keys[idx])
  /\ Caught
  /\ UNCHANGED <<run, keys, clock>>
  /\ UNCHANGED <<otherVars, envVars, dbVars>>

\* step 1 with the PutCommand sent to DYNAMO_TABLE, under PK = PHOTO as the
\* single-table script keys its photos
PutPhotoInSingleTable ==
  /\ pc = "save"
  /\ clock' = clock + 1
  /\ singleTbl' = PutItem(singleTbl,
                          <<<<"P", "H", "O", "T", "O">>, keyToPhotoId(keys[idx])>>,
                          photoItem(keys[idx], clock'))
  /\ IF Len(logos) = 0
       THEN /\ Stored
            /\ UNCHANGED <<failed, throws>>
       ELSE LET chunks == chunk(mappingWrites(keys[idx], logos, clock'),
                                BATCH_SIZE)
            IN /\ requestItems' = Head(chunks)
               /\ batches' = Tail(chunks)
               /\ sends' = 0
               /\ pc' = "batch"
               /\ UNCHANGED <<idx, logos, pending, failed, throws>>
  /\ UNCHANGED <<run, keys, attempted>>
  /\ UNCHANGED <<otherVars, bucket, vision, singleRun, conc, gallery, dbVars>>

\* savePhotoDecoupled, step 1: the PutCommand on the Photos table; without
\* logos the function returns, otherwise the mapping writes are chunked
PutPhoto ==
  /\ pc = "save"
  /\ clock' = clock + 1
  /\ photosTbl' = PutItem(photosTbl, keyToPhotoId(keys[idx]),
                          photoItem(keys[idx], clock'))
  /\ IF Len(logos) = 0
       THEN /\ Stored
            /\ UNCHANGED <<failed, throws>>
       ELSE LET chunks == chunk(mappingWrites(keys[idx], logos, clock'),
                                BATCH_SIZE)
            IN /\ requestItems' = Head(chunks)
               /\ batches' = Tail(chunks)
               /\ sends' = 0
               /\ pc' = "batch"
               /\ UNCHANGED <<idx, logos, pending, failed, throws>>
  /\ UNCHANGED <<run, keys, attempted>>
  /\ UNCHANGED <<otherVars, envVars, photoLogosTbl, summariesTbl>>

\* savePhotoDecoupled, step 1: the PutCommand throws
PutPhotoFails ==
  /\ pc = "save"
  /\ throws < MaxThrows
  /\ clock' = clock + 1
  /\ Caught
  /\ UNCHANGED <<run, keys, attempted>>
  /\ UNCHANGED <<otherVars, envVars, dbVars>>

\* a writeMappingBatch that would send one further request only and return
\* whatever that request leaves unprocessed
SendBatchRetriedOnce ==
  /\ pc = "batch"
  /\ \E done \in SUBSET (1..Len(requestItems)) :
       LET unprocessed ==
             SelectSeq([i \in 1..Len(requestItems) |-> [i |-> i, item |-> requestItems[i]]],
                       LAMBDA e : e.i \notin done)
       IN /\ sends + 1 >= MaxSends => done = 1..Len(requestItems)
          /\ photoLogosTbl' = PutAll(photoLogosTbl, requestItems, done)
          /\ IF Len(unprocessed) = 0 \/ sends >= 1
               THEN IF batches # <<>>
                      THEN /\ requestItems' = Head(batches)
                           /\ batches' = Tail(batches)
                           /\ sends' = 0
                           /\ pc' = "batch"
                           /\ pending' = pending
                      ELSE /\ requestItems' = <<>>
                           /\ batches' = <<>>
                           /\ sends' = 0
                           /\ pc' = "summary"
                           /\ pending' = slugSummaries(logos, <<>>)
               ELSE /\ requestItems' = [i \in 1..Len(unprocessed) |-> unprocessed[i].item]
                    /\ sends' = sends + 1
                    /\ UNCHANGED <<batches, pc, pending>>
  /\ UNCHANGED <<run, keys, idx, logos, clock, attempted, failed, throws>>
  /\ UNCHANGED <<otherVars, envVars, photosTbl, summariesTbl>>

\* a writeMappingBatch that would send the whole request again when the
\* response reports unprocessed items
SendBatchResendingAll ==
  /\ pc = "batch"
  /\ \E done \in SUBSET (1..Len(requestItems)) :
       LET unprocessed ==
             SelectSeq([i \in 1..Len(requestItems) |-> [i |-> i, item |-> requestItems[i]]],
                       LAMBDA e : e.i \notin done)
       IN /\ sends + 1 >= MaxSends => done = 1..Len(requestItems)
          /\ photoLogosTbl' = PutAll(photoLogosTbl, requestItems, done)
          /\ IF Len(unprocessed) = 0
               THEN IF batches # <<>>
                      THEN /\ requestItems' = Head(batches)
                           /\ batches' = Tail(batches)
                           /\ sends' = 0
                           /\ pc' = "batch"
                           /\ pending' = pending
                      ELSE /\ requestItems' = <<>>
                           /\ batches' = <<>>
                           /\ sends' = 0
                           /\ pc' = "summary"
                           /\ pending' = slugSummaries(logos, <<>>)
               ELSE /\ requestItems' = requestItems
                    /\ sends' = sends + 1
                    /\ UNCHANGED <<batches, pc, pending>>
  /\ UNCHANGED <<run, keys, idx, logos, clock, attempted, failed, throws>>
  /\ UNCHANGED <<otherVars, envVars, photosTbl, summariesTbl>>

\* writeMappingBatch: one BatchWriteCommand; the database writes the items
\* of the positions in done and reports the others as unprocessed
SendBatch ==
  /\ pc = "batch"
  /\ \E done \in SUBSET (1..Len(requestItems)) :
       LET unprocessed ==
             SelectSeq([i \in 1..Len(requestItems) |-> [i |-> i, item |-> requestItems[i]]],
                       LAMBDA e : e.i \notin done)
       IN /\ sends + 1 >= MaxSends => done = 1..Len(requestItems)
          /\ photoLogosTbl' = PutAll(photoLogosTbl, requestItems, done)
          /\ IF Len(unprocessed) = 0
               THEN IF batches # <<>>
                      THEN /\ requestItems' = Head(batches)
                           /\ batches' = Tail(batches)
                           /\ sends' = 0
                           /\ pc' = "batch"
                           /\ pending' = pending
                      ELSE /\ requestItems' = <<>>
                           /\ batches' = <<>>
                           /\ sends' = 0
                           /\ pc' = "summary"
                           /\ pending' = slugSummaries(logos, <<>>)
               ELSE /\ requestItems' = [i \in 1..Len(unprocessed) |-> unprocessed[i].item]
                    /\ sends' = sends + 1
                    /\ UNCHANGED <<batches, pc, pending>>
  /\ UNCHANGED <<run, keys, idx, logos, clock, attempted, failed, throws>>
  /\ UNCHANGED <<otherVars, envVars, photosTbl, summariesTbl>>

\* a savePhotoDecoupled that would log the error of the batch write and go
\* on to the summaries
SendBatchFailsAndGoesOn ==
  /\ pc = "batch"
  /\ throws < MaxThrows
  /\ throws' = throws + 1
  /\ failed' = failed \cup {keys[idx]}
  /\ pc' = "summary"
  /\ pending' = slugSummaries(logos, <<>>)
  /\ requestItems' = <<>>
  /\ batches' = <<>>
  /\ sends' = 0
  /\ UNCHANGED <<idx, logos>>
  /\ UNCHANGED <<run, keys, clock, attempted>>
  /\ UNCHANGED <<otherVars, envVars, dbVars>>

\* writeMappingBatch: the BatchWriteCommand throws
SendBatchFails ==
  /\ pc = "batch"
  /\ throws < MaxThrows
  /\ Caught
  /\ UNCHANGED <<run, keys, clock, attempted>>
  /\ UNCHANGED <<otherVars, envVars, dbVars>>

\* savePhotoDecoupled, step 3: the UpdateCommand of the next entry of
\* slugSummaries; after the last one the function returns
UpdateLogoSummary ==
  /\ pc = "summary"
  /\ summariesTbl' = UpdateSummary(summariesTbl, Head(pending), clock)
  /\ IF Tail(pending) = <<>>
       THEN Stored
       ELSE /\ pending' = Tail(pending)
            /\ UNCHANGED <<idx, pc, logos, batches, requestItems, sends>>
  /\ UNCHANGED <<run, keys, clock, attempted, failed, throws>>
  /\ UNCHANGED <<otherVars, envVars, photosTbl, photoLogosTbl>>

\* savePhotoDecoupled, step 3: the UpdateCommand throws
UpdateLogoSummaryFails ==
  /\ pc = "summary"
  /\ throws < MaxThrows
  /\ Caught
  /\ UNCHANGED <<run, keys, clock, attempted>>
  /\ UNCHANGED <<otherVars, envVars, dbVars>>

\* the for loop is over: "Ingestion complete."
Complete ==
  /\ pc = "loop"
  /\ idx > Len(keys)
  /\ pc' = "done"
  /\ UNCHANGED <<run, keys, idx, logos, clock, batches, requestItems, sends,
                 pending, attempted, failed, throws>>
  /\ UNCHANGED <<otherVars, envVars, dbVars>>

(***************************************************************************)
(* The single-table ingestion script: every item goes to one table, under  *)
(* the partitions PHOTO, LOGO#slug and LOGO.  The loop of main() is the    *)
(* loop of the decoupled script; one step handles one photo, up to the     *)
(* command that throws, if one does.  (The attribute _type is not part of  *)
(* the model: nothing reads it.)                                           *)
(***************************************************************************)
PHOTO_PARTITION_KEY == <<"P", "H", "O", "T", "O">>
LOGO_PARTITION_KEY == <<"L", "O", "G", "O">>

\* an attribute that holds a list
Array(a) == [t |-> "array", a |-> a]

\* item[name], undefined when the item has no such attribute
Attr(item, name) == IF name \in DOMAIN item THEN item[name] ELSE Undefined

singleKey(item) == <<item.PK.s, item.SK.s>>

\* the LogoDetection objects as the document client stores them
detectedLogos(ls) ==
  Array([i \in 1..Len(ls) |->
           [name |-> Str(ls[i].name), slug |-> Str(ls[i].slug),
            confidence |-> Num(ls[i].confidence),
            detectionIndex |-> Num(ls[i].detectionIndex)]])

\* the item savePhoto puts under PHOTO
singlePhotoItem(key, ls, now) ==
  [PK |-> Str(PHOTO_PARTITION_KEY),
   SK |-> Str(keyToPhotoId(key)),
   s3Key |-> Str(key),
   publicUrl |-> buildPublicUrl(key),
   detectedLogos |-> detectedLogos(ls),
   createdAt |-> Str(toISOString(now))]

\* the items savePhoto builds for the detections (mappingWrites)
singleMappingWrites(key, ls) ==
  [i \in 1..Len(ls) |->
     [PK |-> Str(LOGO_PARTITION_KEY \o <<"#">> \o ls[i].slug),
      SK |-> Str(sortKeyOf(keyToPhotoId(key), ls[i].detectionIndex)),
      photoId |-> Str(keyToPhotoId(key)),
      confidence |-> Num(ls[i].confidence),
      detectionIndex |-> Num(ls[i].detectionIndex),
      publicUrl |-> buildPublicUrl(key)]]

\* the PutRequests of the positions in done, applied in order
RECURSIVE PutRequests(_, _, _)
PutRequests(tbl, items, done) ==
  IF items = <<>> THEN tbl
  ELSE PutRequests(IF 1 \in done
                     THEN PutItem(tbl, singleKey(Head(items)), Head(items))
                     ELSE tbl,
                   Tail(items), {i - 1 : i \in done \ {1}})

\* the UpdateCommand of savePhoto on the item LOGO / summary.slug
UpdateSingleSummary(tbl, summary) ==
  LET key == <<LOGO_PARTITION_KEY, summary.slug>>
      old == IF key \in DOMAIN tbl THEN tbl[key] ELSE <<>>
      new == [PK |-> Str(LOGO_PARTITION_KEY),
              SK |-> Str(summary.slug),
              displayName |->
                if_not_exists(Attr(old, "displayName"), Str(summary.name)),
              topConfidence |->
                if_not_exists(Attr(old, "topConfidence"),
                              Num(summary.maxConfidence)),
              totalPhotos |-> AddNumber(Attr(old, "totalPhotos"), 1)]
  IN PutItem(tbl, key, new)

\* the first n UpdateCommands of savePhoto
RECURSIVE UpdateSingleSummaries(_, _, _)
UpdateSingleSummaries(tbl, summaries, n) ==
  IF n = 0 \/ summaries = <<>> THEN tbl
  ELSE UpdateSingleSummaries(UpdateSingleSummary(tbl, Head(summaries)),
                             Tail(summaries), n - 1)

\* how a call of savePhoto ends: it returns, or the PutCommand throws, or a
\* BatchWriteCommand throws when the items of the positions in done are
\* written, or the UpdateCommand after the first done ones throws
SavePhotoThrows(ls) ==
  {[at |-> "put", done |-> {}]}
  \cup {[at |-> "batch", done |-> d] :
          d \in (SUBSET (1..Len(ls))) \ {1..Len(ls)}}
  \cup {[at |-> "update", done |-> 1..n] :
          n \in 0..(Len(slugSummaries(ls, <<>>)) - 1)}

Returns == [at |-> "return", done |-> {}]

\* the table savePhoto leaves
savePhoto(tbl, key, ls, now, end) ==
  LET put == PutItem(tbl, <<PHOTO_PARTITION_KEY, keyToPhotoId(key)>>,
                     singlePhotoItem(key, ls, now))
      writes == singleMappingWrites(key, ls)
      batch == PutRequests(put, writes, 1..Len(writes))
      summaries == slugSummaries(ls, <<>>)
  IN CASE end.at = "put" -> tbl
       [] end.at = "batch" -> PutRequests(put, writes, end.done)
       [] end.at = "update" ->
            UpdateSingleSummaries(batch, summaries, Cardinality(end.done))
       [] OTHER ->
            IF Len(ls) = 0 THEN put
            ELSE UpdateSingleSummaries(batch, summaries, Len(summaries))

NoSingleRun == [pc |-> "idle", keys |-> <<>>, idx |-> 1, clock |-> 0, failed |-> {}]

\* main() of the single-table script starts: listPhotos answers
SingleStart ==
  /\ singleRun.pc = "idle"
  /\ singleRun' = [singleRun EXCEPT !.pc = "loop", !.keys = listPhotos(bucket)]
  /\ UNCHANGED <<singleTbl, bucket, vision, conc, gallery, dbVars, ingestVars, otherVars>>

\* one turn of the loop: detectLogosForKey and savePhoto return
SinglePhoto ==
  /\ singleRun.pc = "loop"
  /\ singleRun.idx <= Len(singleRun.keys)
  /\ LET key == singleRun.keys[singleRun.idx]
         now == singleRun.clock + 1
     IN /\ singleTbl' = savePhoto(singleTbl, key, detectLogos(vision[key]),
                                  now, Returns)
        /\ singleRun' = [singleRun EXCEPT !.idx = @ + 1, !.clock = now]
  /\ UNCHANGED <<bucket, vision, conc, gallery, dbVars, ingestVars, otherVars>>

\* one turn of the loop: detectLogosForKey throws, or a command of
\* savePhoto does; the catch block logs the error
SinglePhotoFails ==
  /\ singleRun.pc = "loop"
  /\ singleRun.idx <= Len(singleRun.keys)
  /\ LET key == singleRun.keys[singleRun.idx]
         now == singleRun.clock + 1
         ls == detectLogos(vision[key])
     IN /\ \/ singleTbl' = singleTbl
           \/ \E end \in SavePhotoThrows(ls) :
                /\ Len(ls) = 0 => end.at = "put"
                /\ singleTbl' = savePhoto(singleTbl, key, ls, now, end)
        /\ singleRun' = [singleRun EXCEPT !.idx = @ + 1, !.clock = now,
                                          !.failed = @ \cup {key}]
  /\ UNCHANGED <<bucket, vision, conc, gallery, dbVars, ingestVars, otherVars>>

\* the loop is over: "Ingestion complete."
SingleComplete ==
  /\ singleRun.pc = "loop"
  /\ singleRun.idx > Len(singleRun.keys)
  /\ singleRun' = [singleRun EXCEPT !.pc = "done"]
  /\ UNCHANGED <<singleTbl, bucket, vision, conc, gallery, dbVars, ingestVars, otherVars>>

(***************************************************************************)
(* Two processes run the decoupled script side by side over the same       *)
(* bucket and the same three tables.  A command is one step: DynamoDB      *)
(* applies an UpdateItem to its item atomically, and nothing else is       *)
(* shared between the processes.  The PutCommand and the batch writes of a *)
(* photo are taken together; they do not touch the summaries.              *)
(***************************************************************************)
Procs == {1, 2}

\* f[x], 0 when f has no x
Count(f, x) == IF x \in DOMAIN f THEN f[x] ELSE 0

\* main() starts in both processes: listPhotos answers
ConcStart ==
  /\ conc = <<>>
  /\ pc = "idle"
  /\ conc' = [p \in Procs |->
                [pc |-> "loop", keys |-> listPhotos(bucket), idx |-> 1,
                 pending |-> <<>>, now |-> 0, answered |-> <<>>]]
  /\ UNCHANGED <<bucket, vision, singleVars, gallery, dbVars, ingestVars, otherVars>>

\* detectLogosForKey answers, then steps 1 and 2 of savePhotoDecoupled
ConcSave(p) ==
  /\ conc # <<>>
  /\ conc[p].pc = "loop"
  /\ conc[p].idx <= Len(conc[p].keys)
  /\ LET key == conc[p].keys[conc[p].idx]
         ls == detectLogos(vision[key])
     IN /\ clock' = clock + 1
        /\ photosTbl' = PutItem(photosTbl, keyToPhotoId(key), photoItem(key, clock'))
        /\ photoLogosTbl' = PutAll(photoLogosTbl, mappingWrites(key, ls, clock'),
                                   1..Len(ls))
        /\ conc' = IF Len(ls) = 0
                     THEN [conc EXCEPT ![p].idx = @ + 1]
                     ELSE [conc EXCEPT ![p].pc = "update",
                                       ![p].pending = slugSummaries(ls, <<>>),
                                       ![p].now = clock']
  /\ UNCHANGED <<bucket, vision, singleVars, gallery, summariesTbl, otherVars>>
  /\ UNCHANGED <<pc, run, keys, idx, logos, batches, requestItems, sends,
                 pending, attempted, failed, throws>>

\* step 3 of savePhotoDecoupled: the UpdateCommand of the next slug answers
ConcUpdate(p) ==
  /\ conc # <<>>
  /\ conc[p].pc = "update"
  /\ LET summary == Head(conc[p].pending)
         rest == Tail(conc[p].pending)
     IN /\ summariesTbl' = UpdateSummary(summariesTbl, summary, conc[p].now)
        /\ conc' = [conc EXCEPT
                      ![p].answered =
                         [s \in DOMAIN @ \cup {summary.slug} |->
                            IF s = summary.slug THEN Count(@, s) + 1 ELSE @[s]],
                      ![p].pending = rest,
                      ![p].pc = IF rest = <<>> THEN "loop" ELSE "update",
                      ![p].idx = IF rest = <<>> THEN @ + 1 ELSE @]
  /\ UNCHANGED <<bucket, vision, singleVars, gallery, photosTbl, photoLogosTbl,
                 ingestVars, otherVars>>

\* the UpdateCommand throws: savePhotoDecoupled rejects, main() logs the
\* failure and goes on with the next key
ConcUpdateFails(p) ==
  /\ conc # <<>>
  /\ conc[p].pc = "update"
  /\ conc' = [conc EXCEPT ![p].pending = <<>>, ![p].pc = "loop",
                          ![p].idx = @ + 1]
  /\ UNCHANGED <<bucket, vision, singleVars, gallery, dbVars, ingestVars, otherVars>>

\* the loop of a process is over: "Ingestion complete."
ConcComplete(p) ==
  /\ conc # <<>>
  /\ conc[p].pc = "loop"
  /\ conc[p].idx > Len(conc[p].keys)
  /\ conc' = [conc EXCEPT ![p].pc = "done"]
  /\ UNCHANGED <<bucket, vision, singleVars, gallery, dbVars, ingestVars, otherVars>>

(***************************************************************************)
(* The route handlers, and the reads of the web application.  The routes   *)
(* are modelled over the repository of the three tables, the one the       *)
(* migration guide switches their import to.                               *)
(***************************************************************************)
\* NextResponse.json(body, { status })
Response(status, body) == [kind |-> "response", status |-> status, body |-> body]

\* GET of app/api/photos/route.ts, given what fetchAllPhotos produced
GET_photos(outcome) ==
  IF outcome.ok
    THEN Response(200, [photos |-> outcome.value])
    ELSE Response(500, [error |-> "Unable to load photos"])

\* GET of app/api/logos/route.ts, given what fetchAllLogos produced
GET_logos(outcome) ==
  IF outcome.ok
    THEN Response(200, [logos |-> outcome.value])
    ELSE Response(500, [error |-> "Unable to load logos"])

\* a handler that would answer with the message of the error
GET_logoNameWithDetails(normalized, outcome) ==
  IF outcome.ok
    THEN Response(200, [logo |-> normalized, photos |-> outcome.value])
    ELSE Response(500, [error |-> outcome.error])

\* GET of app/api/logos/[logoName]/route.ts after the check of logoParam,
\* given what fetchPhotosByLogo(normalized) produced
GET_logoName(normalized, outcome) ==
  IF outcome.ok
    THEN Response(200, [logo |-> normalized, photos |-> outcome.value])
    ELSE Response(500, [error |-> "Unable to load photos for logo"])

\* the names a client may ask for
LogoParams == {<<>>, <<"A">>, <<"b">>, <<" ", "a", "b">>}

\* a request is handled while no ingestion run is under way and the answer
\* to the request before it has been delivered
Quiescent == pc \in {"idle", "done", "fatal"} /\ call = None

GetPhotos ==
  /\ Quiescent
  /\ \E outcome \in fetchAllPhotosOutcomes :
       /\ call' = [fn |-> "GET /api/photos", arg |-> <<>>]
       /\ ret' = outcome
       /\ resp' = GET_photos(outcome)
  /\ UNCHANGED <<envVars, dbVars, ingestVars, strVars>>

GetLogos ==
  /\ Quiescent
  /\ \E outcome \in fetchAllLogosOutcomes :
       /\ call' = [fn |-> "GET /api/logos", arg |-> <<>>]
       /\ ret' = outcome
       /\ resp' = GET_logos(outcome)
  /\ UNCHANGED <<envVars, dbVars, ingestVars, strVars>>

GetPhotosByLogo ==
  /\ Quiescent
  /\ \E logoParam \in LogoParams :
       /\ call' = [fn |-> "GET /api/logos/[logoName]", arg |-> logoParam]
       /\ IF logoParam = <<>>
            THEN /\ ret' = None
                 /\ resp' = Response(400, [error |-> "Logo name is required"])
            ELSE \E outcome \in
                      fetchPhotosByLogoOutcomes(normalizeLogoName(logoParam)) :
                   /\ ret' = outcome
                   /\ resp' = GET_logoName(normalizeLogoName(logoParam), outcome)
  /\ UNCHANGED <<envVars, dbVars, ingestVars, strVars>>

\* a direct call of fetchPhotosByLogo, as a page component makes it
FetchPhotosByLogo ==
  /\ Quiescent
  /\ \E logoNameOrSlug \in LogoParams :
       /\ call' = [fn |-> "fetchPhotosByLogo", arg |-> logoNameOrSlug]
       /\ \E outcome \in fetchPhotosByLogoOutcomes(logoNameOrSlug) :
            ret' = outcome
       /\ resp' = None
  /\ UNCHANGED <<envVars, dbVars, ingestVars, strVars>>

\* the answer is delivered to the client
Deliver ==
  /\ call # None
  /\ Forget
  /\ UNCHANGED <<envVars, dbVars, ingestVars, strVars>>

(***************************************************************************)
(* The Gallery component, src/components/gallery/gallery.tsx.  The page    *)
(* renders it with the photos and the logo summaries of the repository;    *)
(* a click calls setSelectedLogo and the component renders again.  A slug  *)
(* may be the empty string: normalizeLogoName returns it for a name        *)
(* without a letter or a digit.                                            *)
(***************************************************************************)
\* most photos the page hands to the gallery
MaxGalleryPhotos == 2

GallerySlugs == {<<>>, <<"a">>, <<"b">>}

\* the logos lists a photo may carry
GalleryLogoLists ==
  {<<>>} \cup {<<[slug |-> s]>> : s \in GallerySlugs}
         \cup {<<[slug |-> <<"a">>], [slug |-> <<"b">>]>>}

\* initialPhotos: photo i has the id i
GalleryPhotos ==
  UNION {[1..n -> GalleryLogoLists] : n \in 0..MaxGalleryPhotos}

\* logos: at most two summaries, of different slugs
GallerySummaries ==
  {[i \in 1..Len(o) |-> [slug |-> o[i]]] :
     o \in {o \in UNION {Orders(S) : S \in SUBSET GallerySlugs} : Len(o) <= 2}}

\* filteredPhotos
filteredPhotos(initialPhotos, selectedLogo) ==
  IF Falsy(selectedLogo) THEN initialPhotos
  ELSE SelectSeq(initialPhotos,
                 LAMBDA photo : \E i \in 1..Len(photo.logos) :
                                  photo.logos[i].slug = selectedLogo.s)

\* what the component renders: the state and the photos of the grid
Render(props, selectedLogo) ==
  [initialPhotos |-> props.initialPhotos,
   logos |-> props.logos,
   selectedLogo |-> selectedLogo,
   shown |-> filteredPhotos(props.initialPhotos, selectedLogo)]

\* Home renders the gallery: useState(null)
Mount ==
  /\ gallery = None
  /\ \E ls \in GalleryPhotos, summaries \in GallerySummaries :
       gallery' =
         Render([initialPhotos |-> [i \in 1..Len(ls) |-> [id |-> i, logos |-> ls[i]]],
                 logos |-> summaries], Null)
  /\ UNCHANGED <<bucket, vision, singleVars, conc, dbVars, ingestVars, otherVars>>

\* a click on the button of a logo: setSelectedLogo(logo.slug)
ClickLogo ==
  /\ gallery # None
  /\ \E i \in 1..Len(gallery.logos) :
       gallery' = Render(gallery, Str(gallery.logos[i].slug))
  /\ UNCHANGED <<bucket, vision, singleVars, conc, dbVars, ingestVars, otherVars>>

\* a click on "All photos": setSelectedLogo(null)
ClickAllPhotos ==
  /\ gallery # None
  /\ gallery' = Render(gallery, Null)
  /\ UNCHANGED <<bucket, vision, singleVars, conc, dbVars, ingestVars, otherVars>>

(***************************************************************************)
(* The repository over the single table (logo-index).  getTableName is     *)
(* asked for "photos", "logos" and "photo-logos"; the single-table script  *)
(* writes the three kinds of item to the one table DYNAMO_TABLE, so the    *)
(* three names are that table.                                             *)
(***************************************************************************)
\* the elements of item.detections that mapPhotoItem keeps, as detections
mapDetections(value) ==
  IF value.t # "array" THEN <<>>
  ELSE LET nameOf(logo) ==
             Coalesce(asString(Attr(logo, "name")),
                      Coalesce(asString(Attr(logo, "displayName")), Str(<<>>))).s
           named == SelectSeq(value.a, LAMBDA logo : nameOf(logo) # <<>>)
       IN [i \in 1..Len(named) |->
             [name |-> nameOf(named[i]),
              slug |-> normalizeLogoName(nameOf(named[i])),
              confidence |->
                Coalesce(asNumber(Coalesce(Attr(named[i], "confidence"),
                                           Attr(named[i], "score"))), Num(0)),
              detectionIndex |-> asNumber(Attr(named[i], "detectionIndex"))]]

\* mapPhotoItem of the single-table repository
mapPhotoItemSingle(item) ==
  [id |-> Coalesce(asString(Attr(item, "SK")),
                   Coalesce(asString(Attr(item, "photoId")), Str(<<>>))).s,
   imageUrl |-> resolvePublicUrl(asString(Attr(item, "publicUrl")),
                                 asString(Attr(item, "s3Key"))),
   s3Key |-> asString(Attr(item, "s3Key")),
   logos |-> mapDetections(Attr(item, "detections")),
   createdAt |-> asString(Attr(item, "createdAt")),
   matchConfidence |-> Undefined]

\* mapLogoSummary of the single-table repository
mapLogoSummarySingle(item) ==
  LET fallbackName == Coalesce(asString(Attr(item, "SK")), Str(<<>>))
      name == Coalesce(asString(Attr(item, "displayName")), fallbackName)
  IN [slug |-> normalizeLogoName(Coalesce(asString(Attr(item, "SK")), name).s),
      name |-> name.s,
      totalPhotos |-> ToNumber(Coalesce(Attr(item, "totalPhotos"),
                                        Coalesce(Attr(item, "count"), Num(0)))),
      topConfidence |-> asNumber(Attr(item, "topConfidence"))]

\* ScanCommand on the single table: the first page of the partitions in an
\* order the database chooses, the items of a partition in ascending order
\* of SK
ScansSingle(tbl) ==
  LET partitions == {k[1] : k \in DOMAIN tbl}
      keysOf(p) == BySortKey({k \in DOMAIN tbl : k[1] = p})
      RECURSIVE concat(_)
      concat(ps) == IF ps = <<>> THEN <<>>
                    ELSE keysOf(Head(ps)) \o concat(Tail(ps))
  IN {FirstPage([i \in 1..Len(concat(o)) |-> tbl[concat(o)[i]]]) :
        o \in Orders(partitions)}

\* fetchAllPhotos of the single-table repository, given what the scan answered
fetchAllPhotosSingle(items) ==
  sort("photos", [i \in 1..Len(items) |-> mapPhotoItemSingle(items[i])])

\* fetchAllLogos of the single-table repository, given what the scan answered
fetchAllLogosSingle(items) ==
  sort("logos", [i \in 1..Len(items) |-> mapLogoSummarySingle(items[i])])

\* sortKey.split("#")[0]
BeforeHash(s) ==
  LET at == {i \in 1..Len(s) : s[i] = "#"}
  IN IF at = {} THEN s ELSE SubSeq(s, 1, (CHOOSE i \in at : \A j \in at : i <= j) - 1)

\* photoId of a mapping in fetchPhotosByLogo of the single-table repository
mappingPhotoId(item) ==
  LET sortKey == asString(Attr(item, "SK"))
  IN Coalesce(asString(Attr(item, "photoId")),
              IF Falsy(sortKey) THEN Undefined ELSE Str(BeforeHash(sortKey.s)))

\* uniquePhotoIds of fetchPhotosByLogo of the single-table repository
RECURSIVE uniquePhotoIdsSingle(_, _)
uniquePhotoIdsSingle(mappings, acc) ==
  IF mappings = <<>> THEN acc
  ELSE LET photoId == mappingPhotoId(Head(mappings))
       IN IF Falsy(photoId) \/ photoId.s \in Range(acc)
            THEN uniquePhotoIdsSingle(Tail(mappings), acc)
            ELSE uniquePhotoIdsSingle(Tail(mappings), Append(acc, photoId.s))

\* photoIdConfidences.get(id) after the loop, single-table repository
RECURSIVE photoIdConfidenceSingle(_, _, _)
photoIdConfidenceSingle(mappings, id, existing) ==
  IF mappings = <<>> THEN existing
  ELSE LET item == Head(mappings)
           photoId == mappingPhotoId(item)
           confidence == asNumber(Attr(item, "confidence"))
       IN IF ~Falsy(photoId) /\ photoId.s = id /\ confidence # Undefined
               /\ (existing = Undefined \/ confidence.n > existing.n)
            THEN photoIdConfidenceSingle(Tail(mappings), id, confidence)
            ELSE photoIdConfidenceSingle(Tail(mappings), id, existing)

\* fetchPhotosByLogo of the single-table repository; served are the keys the
\* batch get does not leave unprocessed
fetchPhotosByLogoSingle(logoNameOrSlug, tbl, served) ==
  LET slug == normalizeLogoName(logoNameOrSlug)
      mappings == Query(tbl, LOGO_PARTITION_KEY \o <<"#">> \o slug)
      ids == uniquePhotoIdsSingle(mappings, <<>>)
      keyOf(id) == <<PHOTO_PARTITION_KEY, id>>
      photoItems == BatchGet(tbl, [i \in 1..Len(ids) |-> keyOf(ids[i])], served)
      photoMap == SelectSeq(photoItems,
                            LAMBDA item : ~Falsy(asString(Attr(item, "SK"))))
      at(id) == {i \in 1..Len(photoMap) : asString(photoMap[i].SK).s = id}
      cloned(id) ==
        [mapPhotoItemSingle(photoMap[Max(at(id))]) EXCEPT
           !.matchConfidence = photoIdConfidenceSingle(mappings, id, Undefined)]
      kept == SelectSeq(ids, LAMBDA id : at(id) # {})
  IN IF Len(mappings) = 0 THEN <<>>
     ELSE IF Len(ids) = 0 THEN <<>>
     ELSE [i \in 1..Len(kept) |-> cloned(kept[i])]

\* both scripts went through the bucket and no photo failed
BothComplete ==
  /\ singleRun.pc = "done" /\ singleRun.failed = {}
  /\ pc = "done" /\ failed = {}

\* the two repositories are compared on tables that both scripts filled
\* completely; a request is handled once the answer before is delivered
BothAtRest == BothComplete /\ call = None

SingleFetchAllPhotos ==
  /\ BothAtRest
  /\ call' = [fn |-> "logo-index fetchAllPhotos", arg |-> <<>>]
  /\ \E outcome \in {Returned(fetchAllPhotosSingle(items)) :
                       items \in ScansSingle(singleTbl)}
                    \cup {Thrown(e) : e \in Errors} :
       ret' = outcome
  /\ resp' = None
  /\ UNCHANGED <<envVars, dbVars, ingestVars, strVars>>

SingleFetchAllLogos ==
  /\ BothAtRest
  /\ call' = [fn |-> "logo-index fetchAllLogos", arg |-> <<>>]
  /\ \E outcome \in {Returned(fetchAllLogosSingle(items)) :
                       items \in ScansSingle(singleTbl)}
                    \cup {Thrown(e) : e \in Errors} :
       ret' = outcome
  /\ resp' = None
  /\ UNCHANGED <<envVars, dbVars, ingestVars, strVars>>

SingleFetchPhotosByLogo ==
  /\ BothAtRest
  /\ \E logoNameOrSlug \in LogoParams :
       /\ call' = [fn |-> "logo-index fetchPhotosByLogo", arg |-> logoNameOrSlug]
       /\ \E outcome \in
              {Returned(fetchPhotosByLogoSingle(logoNameOrSlug, singleTbl, served)) :
                 served \in SUBSET {k \in DOMAIN singleTbl :
                                      k[1] = PHOTO_PARTITION_KEY}}
              \cup {Thrown(e) : e \in Errors} :
            ret' = outcome
  /\ resp' = None
  /\ UNCHANGED <<envVars, dbVars, ingestVars, strVars>>

vars == <<envVars, dbVars, ingestVars, repoVars, strVars>>

\* no run of the ingestion script has started, no request has been made
Idle ==
  /\ pc = "idle"
  /\ run = 0
  /\ keys = <<>>
  /\ idx = 1
  /\ logos = <<>>
  /\ clock = 0
  /\ batches = <<>>
  /\ requestItems = <<>>
  /\ sends = 0
  /\ pending = <<>>
  /\ attempted = <<>>
  /\ failed = {}
  /\ throws = 0
  /\ call = None
  /\ ret = None
  /\ resp = None
  /\ singleTbl = <<>>
  /\ singleRun = NoSingleRun
  /\ conc = <<>>
  /\ gallery = None

\* no string function has been applied
NoStrings ==
  /\ input = None
  /\ output = None

Init ==
  /\ bucket \in Buckets
  /\ vision \in [Range(bucket) -> VisionResults]
  /\ photosTbl = <<>>
  /\ photoLogosTbl = <<>>
  /\ summariesTbl = <<>>
  /\ Idle
  /\ NoStrings

(***************************************************************************)
(* Table contents the repository may find: the tables are shared with      *)
(* whatever else writes to them, so attributes may be missing or hold      *)
(* values of another type.                                                 *)
(***************************************************************************)
\* largest confidence stored as a number
MaxConf == 2

RepoPhotoIds == {<<"1">>, <<"a">>, <<"b">>}

RawCreatedAt ==
  {Undefined, Str(toISOString(1)), Str(toISOString(2)), Str(<<"b">>)}

rawPhoto(id, createdAt) ==
  [photoId |-> Str(id), s3Key |-> Str(S3_PREFIX \o id), publicUrl |-> Undefined,
   createdAt |-> createdAt, updatedAt |-> createdAt]

\* the tables that hold the photos in ids, each with a createdAt of times
RawPhotoTables(ids, times) ==
  UNION {{[id \in S |-> rawPhoto(id, f[id])] : f \in [S -> times]} :
           S \in SUBSET ids}

RawConfidences ==
  {Undefined, NaN, Infinity, Str(<<"a">>), Str(<<"2">>),
   Str(<<"I", "n", "f", "i", "n", "i", "t", "y">>)}
  \cup {Num(n) : n \in 1..MaxConf}

\* the detections the mappings of the table are about
RawDetections ==
  { [slug |-> <<"a">>, photoId |-> <<"a">>, index |-> 0],
    [slug |-> <<"a">>, photoId |-> <<"a">>, index |-> 1],
    [slug |-> <<"b">>, photoId |-> <<"a">>, index |-> 1],
    [slug |-> <<"a">>, photoId |-> <<"b">>, index |-> 0] }

rawMapping(d, photoId, confidence) ==
  [logoSlug |-> Str(d.slug),
   sortKey |-> Str(sortKeyOf(d.photoId, d.index)),
   photoId |-> photoId,
   logoName |-> Str(d.slug),
   confidence |-> confidence,
   detectionIndex |-> Num(d.index),
   createdAt |-> Str(toISOString(1))]

\* the items a table may hold for the detection d
RawMappings(d, confidences) ==
  {rawMapping(d, photoId, c) : photoId \in {Undefined, Str(d.photoId)},
                               c \in confidences}

TableOf(items) == [k \in {mappingKey(m) : m \in items} |->
                     CHOOSE m \in items : mappingKey(m) = k]

\* the tables of at most most items, one per detection at most
RawMappingTables(confidences, most) ==
  UNION {{TableOf({f[d] : d \in D}) :
            f \in {g \in [D -> UNION {RawMappings(d, confidences) : d \in D}] :
                     \A d \in D : g[d] \in RawMappings(d, confidences)}} :
           D \in {E \in SUBSET RawDetections : Cardinality(E) <= most}}

rawSummary(slug, displayName, totalPhotos, topConfidence) ==
  [logoSlug |-> Str(slug), displayName |-> displayName,
   totalPhotos |-> totalPhotos, topConfidence |-> topConfidence,
   firstDetectedAt |-> Str(toISOString(1)),
   lastDetectedAt |-> Str(toISOString(1))]

RawSummaries(slug) ==
  {rawSummary(slug, n, t, c) :
     n \in {Undefined, Str(<<"B">>)},
     t \in {Undefined, Num(1), Num(2), Str(<<"a">>)},
     c \in {Undefined, Num(1)}}

RawSummaryTables ==
  UNION {{[slug \in S |-> f[slug]] :
            f \in {g \in [S -> UNION {RawSummaries(x) : x \in S}] :
                     \A x \in S : g[x] \in RawSummaries(x)}} :
           S \in SUBSET {<<"a">>, <<"b">>}}

\* more photos than a page of a scan holds
ManyPhotoIds == RepoPhotoIds \cup {<<"a", "a">>, <<"b", "b">>}

\* the repository over tables of any content: many photos and a mapping,
\* or many mappings and photos of one time, or summaries alone, or more
\* photos than a page holds
InitRepo ==
  /\ bucket = <<>>
  /\ vision = <<>>
  /\ Idle
  /\ NoStrings
  /\ \/ /\ photosTbl \in RawPhotoTables(RepoPhotoIds, RawCreatedAt)
        /\ photoLogosTbl \in RawMappingTables({Num(1)}, 1)
        /\ summariesTbl = <<>>
     \/ /\ photosTbl \in RawPhotoTables({<<"a">>, <<"b">>}, {Str(toISOString(1))})
        /\ photoLogosTbl \in RawMappingTables(RawConfidences, 2)
        /\ summariesTbl = <<>>
     \/ /\ photosTbl = <<>>
        /\ photoLogosTbl = <<>>
        /\ summariesTbl \in RawSummaryTables
     \/ /\ photosTbl = [id \in ManyPhotoIds |-> rawPhoto(id, Str(toISOString(1)))]
        /\ photoLogosTbl \in RawMappingTables({Num(1)}, 1)
        /\ summariesTbl = <<>>

IngestNext ==
  \/ StartRun
  \/ ListFails
  \/ Detect
  \/ DetectFails
  \/ PutPhoto
  \/ PutPhotoFails
  \/ SendBatch
  \/ SendBatchFails
  \/ UpdateLogoSummary
  \/ UpdateLogoSummaryFails
  \/ Complete

RouteNext ==
  \/ GetPhotos
  \/ GetLogos
  \/ GetPhotosByLogo
  \/ Deliver

ReadNext ==
  \/ RouteNext
  \/ FetchPhotosByLogo

\* the ingestion script alone
Spec == Init /\ [][IngestNext]_vars

\* the ingestion script and the routes of the web application over the
\* same tables, for a bucket of two photos, each with one logo or with two
InitSystem ==
  /\ Init
  /\ bucket \in {SubSeq(KeyListing, 2, 3), SubSeq(KeyListing, 3, 4)}
  /\ \A k \in Range(bucket) :
       vision[k] \in { <<Ann(Str(<<"A">>), Num(1))>>,
                       <<Ann(Str(<<"a">>), Num(2)), Ann(Str(<<"b">>), Num(1))>> }

SpecSystem == InitSystem /\ [][IngestNext \/ RouteNext]_vars

\* a step of a run that has listed its keys: every awaited call of the
\* script returns or throws, and the script goes on
RunStep ==
  \/ Detect
  \/ DetectFails
  \/ PutPhoto
  \/ PutPhotoFails
  \/ SendBatch
  \/ SendBatchFails
  \/ UpdateLogoSummary
  \/ UpdateLogoSummaryFails
  \/ Complete

\* main() is called for the first time
FirstRun == run = 0 /\ StartRun

\* main() is called for the first time and listPhotos throws
FirstRunFails == run = 0 /\ ListFails

\* one run of the ingestion script over two photos, which does not stop in
\* the middle of the run
SpecLive == InitSystem /\ [][FirstRun \/ FirstRunFails \/ RunStep]_vars /\ WF_vars(RunStep)

SingleNext ==
  \/ SingleStart
  \/ SinglePhoto
  \/ SinglePhotoFails
  \/ SingleComplete

\* a step of the first run of the decoupled script, once the single-table
\* script is over
DecoupledRun ==
  /\ singleRun.pc = "done"
  /\ (FirstRun \/ FirstRunFails \/ RunStep)

\* the reads of the single-table repository
SingleReadNext ==
  \/ SingleFetchAllPhotos
  \/ SingleFetchAllLogos
  \/ SingleFetchPhotosByLogo
  \/ Deliver

\* the single-table script fills its table, then the decoupled script runs
\* once over the same bucket; the single-table repository is read when
\* both went through
SpecMigration ==
  InitSystem /\ [][SingleNext \/ DecoupledRun \/ SingleReadNext]_vars

ConcNext ==
  \/ ConcStart
  \/ \E p \in Procs : ConcSave(p)
  \/ \E p \in Procs : ConcUpdate(p)
  \/ \E p \in Procs : ConcUpdateFails(p)
  \/ \E p \in Procs : ConcComplete(p)

\* two runs of the decoupled script at the same time, in every interleaving
\* of their commands
SpecConcurrent == InitSystem /\ [][ConcNext]_vars

GalleryNext ==
  \/ Mount
  \/ ClickLogo
  \/ ClickAllPhotos

\* the gallery in the browser, under every sequence of clicks
SpecGallery == InitSystem /\ [][GalleryNext]_vars

\* the web application alone
SpecRepo == InitRepo /\ [][ReadNext]_vars

(***************************************************************************)
(* The identifiers ingestion computes, for any listing of the bucket and   *)
(* any logo description Vision answers with.                               *)
(***************************************************************************)
RECURSIVE StringsOver(_, _)
StringsOver(alphabet, n) ==
  IF n = 0 THEN {<<>>}
  ELSE LET shorter == StringsOver(alphabet, n - 1)
       IN shorter \cup {<<c>> \o r : c \in alphabet, r \in {x \in shorter : Len(x) = n - 1}}

\* object keys under the prefix
ObjectKeys == {S3_PREFIX \o r : r \in StringsOver({"a", ".", "/"}, MaxStrLen)}

\* descriptions of a logo annotation; "&" stands for any character that is
\* neither a Latin letter, a digit nor white space
Descriptions == StringsOver({"a", "A", " ", "&"}, MaxStrLen)

Listing(ks) == [t |-> "listing", keys |-> ks]
Annotations(as) == [t |-> "annotations", annotations |-> as]

\* main: the photoId of every key listPhotos returns
PhotoIdsOfListing ==
  /\ input.t = "listing"
  /\ output = None
  /\ LET ks == listPhotos(input.keys)
     IN output' = [t |-> "photoIds", keys |-> ks,
                   photoIds |-> [i \in 1..Len(ks) |-> keyToPhotoId(ks[i])]]
  /\ UNCHANGED <<input, envVars, dbVars, ingestVars, repoVars>>

\* detectLogosForKey: the logos of an answer of Vision
LogosOfAnnotations ==
  /\ input.t = "annotations"
  /\ output = None
  /\ output' = [t |-> "logos", logos |-> detectLogos(input.annotations)]
  /\ UNCHANGED <<input, envVars, dbVars, ingestVars, repoVars>>

InitStrings ==
  /\ bucket = <<>>
  /\ vision = <<>>
  /\ photosTbl = <<>>
  /\ photoLogosTbl = <<>>
  /\ summariesTbl = <<>>
  /\ Idle
  /\ output = None
  /\ \/ \E k1 \in ObjectKeys : \E k2 \in ObjectKeys \ {k1} : input = Listing(<<k1, k2>>)
     \/ \E d \in Descriptions : input = Annotations(<<Ann(Str(d), Num(1))>>)

StringsNext ==
  \/ PhotoIdsOfListing
  \/ LogosOfAnnotations

SpecStrings == InitStrings /\ [][StringsNext]_vars

(***************************************************************************)
(* Properties of the summaries the ingestion script maintains.             *)
(***************************************************************************)
\* the keys of the bucket get different photoIds, so that no photo
\* overwrites the items of another
DistinctPhotoIds ==
  \A i, j \in 1..Len(bucket) :
    i # j => keyToPhotoId(bucket[i]) # keyToPhotoId(bucket[j])

\* every photo handled so far was saved whole: nothing threw, and the loop
\* of main is between two photos or over
AllSaved == pc \in {"loop", "done"} /\ throws = 0

\* the mapping items of a logo
MappingsOf(slug) ==
  {photoLogosTbl[k] : k \in {x \in DOMAIN photoLogosTbl : x[1] = slug}}

\* C1: after successful ingestions only, the topConfidence of every logo
\* summary is the highest confidence among all the detections of that logo
\* ingested so far, whichever photo they came from.
C1_TopConfidenceIsHighestSeen ==
  (AllSaved /\ DistinctPhotoIds) =>
    \A slug \in DOMAIN summariesTbl :
      summariesTbl[slug].topConfidence =
        Num(Max({m.confidence.n : m \in MappingsOf(slug)}))

\* C2: after any ingestion runs, a second run over the same photos
\* included, the totalPhotos of every logo summary is the number of
\* different photos that have a mapping item for that logo.
C2_TotalPhotosCountsDistinctPhotos ==
  (AllSaved /\ DistinctPhotoIds) =>
    \A slug \in DOMAIN summariesTbl :
      summariesTbl[slug].totalPhotos =
        Num(Cardinality({m.photoId.s : m \in MappingsOf(slug)}))

(***************************************************************************)
(* Properties of the repository and of the routes.                         *)
(***************************************************************************)
\* the last call returned a list of photos
ReturnedPhotos ==
  /\ call # None
  /\ call.fn \in {"GET /api/photos", "GET /api/logos/[logoName]", "fetchPhotosByLogo"}
  /\ ret # None
  /\ ret.ok

\* createdAt x is a time strictly before createdAt y
Earlier(x, y) ==
  /\ x.t = "string" /\ y.t = "string"
  /\ IsFinite(getTime(x.s)) /\ IsFinite(getTime(y.s))
  /\ getTime(x.s).n < getTime(y.s).n

\* C3: whatever the Photos table holds, the list fetchAllPhotos returns is
\* newest first: no photo comes after one created strictly earlier.
C3_FetchAllPhotosNewestFirst ==
  (ReturnedPhotos /\ call.fn = "GET /api/photos") =>
    \A i, j \in 1..Len(ret.value) :
      i < j => ~Earlier(ret.value[i].createdAt, ret.value[j].createdAt)

\* C4: for every name asked and every content of the tables, each photo
\* fetchPhotosByLogo returns has a mapping item for the normalized slug and
\* the photo's own id.
C4_ReturnedPhotosHaveMapping ==
  (ReturnedPhotos /\ call.fn # "GET /api/photos") =>
    \A i \in 1..Len(ret.value) :
      \E k \in DOMAIN photoLogosTbl :
        /\ k[1] = normalizeLogoName(call.arg)
        /\ photoLogosTbl[k].photoId = Str(ret.value[i].id)

\* a photo was returned for the slug while a photo mapped to another logo
\* only was left out
C4_Witness ==
  /\ ReturnedPhotos
  /\ call.fn = "fetchPhotosByLogo"
  /\ Len(ret.value) >= 1
  /\ \E id \in DOMAIN photosTbl :
       /\ \A i \in 1..Len(ret.value) : ret.value[i].id # id
       /\ \E k \in DOMAIN photoLogosTbl : photoLogosTbl[k].photoId = Str(id)

\* the bodies the routes answer a failure with
GenericErrors ==
  {"Unable to load photos", "Unable to load logos", "Unable to load photos for logo"}

\* the repository call of a route threw
RouteFailed ==
  /\ call # None
  /\ call.fn # "fetchPhotosByLogo"
  /\ ret # None
  /\ ~ret.ok

\* C6: when the repository call of a GET route throws, the route still
\* answers, with status 500 and one of the fixed messages, which says
\* nothing of the error.
C6_RoutesAnswer500 ==
  RouteFailed =>
    /\ resp # None
    /\ resp.status = 500
    /\ resp.body \in {[error |-> e] : e \in GenericErrors}

C6_Witness ==
  /\ RouteFailed
  /\ call.fn = "GET /api/logos/[logoName]"
  /\ ret.error \in Errors
  /\ photoLogosTbl # <<>>

\* C9: whatever the confidence attributes of the tables hold, every
\* detection of a returned photo has a finite confidence, and so has every
\* matchConfidence that is set.
C9_ConfidencesAreFinite ==
  ReturnedPhotos =>
    \A i \in 1..Len(ret.value) :
      /\ \A n \in 1..Len(ret.value[i].logos) :
           IsFinite(ret.value[i].logos[n].confidence)
      /\ ret.value[i].matchConfidence # Undefined =>
           IsFinite(ret.value[i].matchConfidence)

\* a photo was returned with a detection whose stored confidence is not a
\* finite number
C9_Witness ==
  /\ ReturnedPhotos
  /\ call.fn = "fetchPhotosByLogo"
  /\ \E i \in 1..Len(ret.value) :
       /\ Len(ret.value[i].logos) >= 1
       /\ \E k \in DOMAIN photoLogosTbl :
            /\ k[1] = normalizeLogoName(call.arg)
            /\ photoLogosTbl[k].photoId = Str(ret.value[i].id)
            /\ photoLogosTbl[k].confidence \in
                 {NaN, Infinity, Str(<<"I", "n", "f", "i", "n", "i", "t", "y">>)}

(***************************************************************************)
(* Properties of the loop of main.                                         *)
(***************************************************************************)
\* the keys taken by the loop so far are the first keys of the list, each
\* once; a run that is over has taken them all, and a run ends with the
\* fatal error only when the listing itself failed
LoopInOrder ==
  /\ Len(attempted) <= Len(keys)
  /\ attempted = SubSeq(keys, 1, Len(attempted))
  /\ pc \in {"loop", "done"} => Len(attempted) = idx - 1
  /\ pc \in {"save", "batch", "summary"} => Len(attempted) = idx
  /\ pc = "done" => attempted = keys
  /\ pc = "fatal" => keys = <<>> /\ attempted = <<>> /\ failed = {}

\* C5: a failure of detectLogosForKey or savePhotoDecoupled for one photo
\* is caught for that photo: every listed key is attempted once, in the
\* order of the list, and a run that has listed its keys reaches
\* "Ingestion complete" whichever photos fail.
C5_LoopSurvivesPhotoFailures ==
  /\ []LoopInOrder
  /\ (pc = "loop") ~> (pc = "done")

\* the first photo of two failed and the run completed with both attempted
C5_Witness ==
  /\ pc = "done"
  /\ Len(keys) = 2
  /\ attempted = keys
  /\ keys[1] \in failed
  /\ keys[2] \notin failed

(***************************************************************************)
(* Properties of the records of the three tables.                          *)
(***************************************************************************)
\* C7: no step of an ingestion run, of a repository call or of a route
\* removes an item: the keys of each table stay or grow, and a later run
\* replaces the item of a key where it is.
C7_KeysOnlyGrow ==
  [][/\ DOMAIN photosTbl \subseteq DOMAIN photosTbl'
     /\ DOMAIN photoLogosTbl \subseteq DOMAIN photoLogosTbl'
     /\ DOMAIN summariesTbl \subseteq DOMAIN summariesTbl']_vars

\* the second run has replaced the item of a photo whose mapping items are
\* still those of the first run, and a route has answered since
C7_Witness ==
  /\ run = 2
  /\ call # None
  /\ \E id \in DOMAIN photosTbl :
       \E k \in DOMAIN photoLogosTbl :
         /\ photoLogosTbl[k].photoId = Str(id)
         /\ photosTbl[id].createdAt # photoLogosTbl[k].createdAt

\* C8: every identifier ingestion writes is a non-empty string: the photoId
\* of every key the listing returns, and the slug of every logo detection
\* kept after the filter on the description.
C8_IdentifiersAreNonEmpty ==
  /\ (output # None /\ output.t = "photoIds") =>
       \A i \in 1..Len(output.photoIds) : output.photoIds[i] # <<>>
  /\ (output # None /\ output.t = "logos") =>
       \A i \in 1..Len(output.logos) : output.logos[i].slug # <<>>

\* C10: the keys a run processes get different photoIds, so that every
\* photo saved has a Photos item of its own.
C10_PhotoIdsAreUnique ==
  /\ \A i, j \in 1..Len(keys) :
       keys[i] # keys[j] => keyToPhotoId(keys[i]) # keyToPhotoId(keys[j])
  /\ AllSaved =>
       \A i \in 1..Len(attempted) :
         /\ keyToPhotoId(attempted[i]) \in DOMAIN photosTbl
         /\ photosTbl[keyToPhotoId(attempted[i])].s3Key = Str(attempted[i])

(***************************************************************************)
(* Properties of writeMappingBatch.                                        *)
(***************************************************************************)
\* C11 as stated: for one batch, writeMappingBatch sends the first request
\* and at most one further request with the unprocessed items.
C11_AtMostOneFurtherRequest == sends <= 1

\* a BatchWriteCommand of the current batch is answered
BatchAnswered == pc = "batch" /\ throws' = throws

\* the items are in the table
Written(items, tbl) ==
  \A i \in 1..Len(items) :
    /\ mappingKey(items[i]) \in DOMAIN tbl
    /\ tbl[mappingKey(items[i])] = items[i]

\* s holds items of u, in the order of u
IsSubSeq(s, u) ==
  \E keep \in SUBSET (1..Len(u)) :
    s = SelectSeq([i \in 1..Len(u) |-> IF i \in keep THEN u[i] ELSE None],
                  LAMBDA x : x # None)

\* C11 as the code has it: writeMappingBatch sends a further request after
\* every answer that reports unprocessed items, with exactly those items,
\* and returns after an answer that reports none, when every item of the
\* request is written; the number of requests has no bound of its own.
C11_RetriedUntilProcessed ==
  [][BatchAnswered =>
       IF pc' = "batch" /\ sends' = sends + 1
         THEN /\ requestItems' # <<>>
              /\ IsSubSeq(requestItems', requestItems)
              /\ batches' = batches
              /\ Written(SelectSeq(requestItems,
                                   LAMBDA x : x \notin Range(requestItems')),
                         photoLogosTbl')
         ELSE Written(requestItems, photoLogosTbl')]_vars

\* a second further request of the same batch is about to be sent
C11_Witness ==
  /\ pc = "batch"
  /\ sends = 2
  /\ requestItems # <<>>

(***************************************************************************)
(* Properties of the single table.                                         *)
(***************************************************************************)
\* the keys of the items savePhoto put for the photo: its PHOTO item and
\* its LOGO#slug mappings
SinglePhotoWrites(photoId) ==
  {k \in DOMAIN singleTbl :
     \/ k = <<PHOTO_PARTITION_KEY, photoId>>
     \/ /\ StartsWith(k[1], LOGO_PARTITION_KEY \o <<"#">>)
        /\ Attr(singleTbl[k], "photoId") = Str(photoId)}

\* the PHOTO item has the mapping and the summary of each of its logos
SinglePhotoIsWhole(photoId) ==
  LET ls == singleTbl[<<PHOTO_PARTITION_KEY, photoId>>].detectedLogos.a
  IN \A i \in 1..Len(ls) :
       /\ <<LOGO_PARTITION_KEY \o <<"#">> \o ls[i].slug.s,
            sortKeyOf(photoId, ls[i].detectionIndex.n)>> \in DOMAIN singleTbl
       /\ <<LOGO_PARTITION_KEY, ls[i].slug.s>> \in DOMAIN singleTbl

\* C12: the writes of single-table ingestion for one photo are one
\* transaction: a photo whose ingestion failed has left no item in the
\* table, and a photo that has its PHOTO item has all its mappings and
\* summaries.
C12_SinglePhotoIsOneTransaction ==
  DistinctPhotoIds =>
    /\ \A key \in singleRun.failed : SinglePhotoWrites(keyToPhotoId(key)) = {}
    /\ \A k \in DOMAIN singleTbl :
         k[1] = PHOTO_PARTITION_KEY => SinglePhotoIsWhole(k[2])

(***************************************************************************)
(* C14.  In the single-table design, reading photos returns them with      *)
(* their inline logo arrays: a photo that the single-table script stored   *)
(* with a non-empty list of detections is returned by fetchAllPhotos of    *)
(* the single-table repository with a logos list that holds those same     *)
(* detections, name and confidence.                                        *)
(***************************************************************************)
\* name and confidence of the detections of a list
NamesAndConfidences(ls) ==
  [i \in 1..Len(ls) |-> [name |-> ls[i].name, confidence |-> ls[i].confidence]]

\* the detections the single-table script stored with the photo item
StoredDetections(item) ==
  [i \in 1..Len(item.detectedLogos.a) |->
     [name |-> item.detectedLogos.a[i].name.s,
      confidence |-> item.detectedLogos.a[i].confidence]]

C14_SingleFetchAllPhotosHasInlineLogos ==
  (call # None /\ call.fn = "logo-index fetchAllPhotos" /\ ret.ok) =>
    \A k \in DOMAIN singleTbl :
      (k[1] = PHOTO_PARTITION_KEY /\ Len(singleTbl[k].detectedLogos.a) > 0) =>
        \E i \in 1..Len(ret.value) :
          /\ ret.value[i].id = k[2]
          /\ NamesAndConfidences(ret.value[i].logos)
               = StoredDetections(singleTbl[k])

(***************************************************************************)
(* C13.  The repository over the three tables is a drop-in replacement     *)
(* for the repository over the single table: when each script has filled   *)
(* its tables from the same photos and detections, fetchAllPhotos,         *)
(* fetchAllLogos and fetchPhotosByLogo of the two repositories return the  *)
(* same photo ids, the same logos for each photo and the same summaries    *)
(* (slug, name, totalPhotos).                                              *)
(***************************************************************************)
\* the logos of a photo record, whatever their order
LogosOf(photo) ==
  {[name |-> photo.logos[i].name, slug |-> photo.logos[i].slug,
    confidence |-> photo.logos[i].confidence] : i \in 1..Len(photo.logos)}

\* two answers hold the same photo ids, with the same logos for each id
SamePhotos(a, b) ==
  /\ {a[i].id : i \in 1..Len(a)} = {b[i].id : i \in 1..Len(b)}
  /\ \A i \in 1..Len(a), j \in 1..Len(b) :
       a[i].id = b[j].id => LogosOf(a[i]) = LogosOf(b[j])

\* two answers hold the same summaries
SameSummaries(a, b) ==
  LET shown(l) == {[slug |-> l[i].slug, name |-> l[i].name,
                    totalPhotos |-> l[i].totalPhotos] : i \in 1..Len(l)}
  IN shown(a) = shown(b)

C13_DecoupledIsDropIn ==
  (BothComplete /\ call # None /\ ret # None /\ ret.ok) =>
    CASE call.fn = "logo-index fetchAllPhotos" ->
           \A p \in Scans(photosTbl), m \in Scans(photoLogosTbl) :
             SamePhotos(fetchAllPhotos(p, m), ret.value)
      [] call.fn = "logo-index fetchAllLogos" ->
           \A l \in Scans(summariesTbl) :
             SameSummaries(fetchAllLogos(l), ret.value)
      [] call.fn = "logo-index fetchPhotosByLogo" ->
           \E served \in SUBSET DOMAIN photosTbl :
             SamePhotos(fetchPhotosByLogo(call.arg, photosTbl, photoLogosTbl,
                                          served), ret.value)
      [] OTHER -> TRUE

(***************************************************************************)
(* C15.  All logo detections show on each photo when filtering by logo:    *)
(* every photo that fetchPhotosByLogo of the decoupled repository returns  *)
(* carries in its logos all the detections the PhotoLogos table holds for  *)
(* that photo, every mapping whose photoId is the photo's id whatever its  *)
(* slug, which is the logos list fetchAllPhotos returns for the photo.     *)
(***************************************************************************)
\* the keys of the mappings of the PhotoLogos table with this photoId
MappingKeysOfPhoto(id) ==
  {k \in DOMAIN photoLogosTbl : asString(photoLogosTbl[k].photoId) = Str(id)}

C15_FilteredPhotosCarryAllLogos ==
  (call # None /\ call.fn = "fetchPhotosByLogo" /\ ret.ok) =>
    \A i \in 1..Len(ret.value) :
      /\ Len(ret.value[i].logos) = Cardinality(MappingKeysOfPhoto(ret.value[i].id))
      /\ Range(ret.value[i].logos)
           = {mapLogoMapping(photoLogosTbl[k]) :
                k \in MappingKeysOfPhoto(ret.value[i].id)}

(***************************************************************************)
(* C16.  Summary updates are atomic under concurrency: when two ingestion  *)
(* processes update the summary of the same slug, no increment is lost.    *)
(* In every interleaving, totalPhotos of a slug has grown by exactly the   *)
(* number of UpdateCommands the two processes got an answer to for that    *)
(* slug (the table starts empty).                                          *)
(***************************************************************************)
\* the UpdateCommands answered for the slug, over both processes
Answered(slug) == Count(conc[1].answered, slug) + Count(conc[2].answered, slug)

C16_NoIncrementIsLost ==
  conc # <<>> =>
    \A slug \in DOMAIN summariesTbl \cup DOMAIN conc[1].answered
                  \cup DOMAIN conc[2].answered :
      /\ slug \in DOMAIN summariesTbl
      /\ summariesTbl[slug].totalPhotos = Num(Answered(slug))

\* both processes have updated the same slug and both are in the middle of
\* the updates of a photo
C16_Witness ==
  /\ conc # <<>>
  /\ conc[1].pc = "update" /\ conc[2].pc = "update"
  /\ \E slug \in DOMAIN conc[1].answered \cap DOMAIN conc[2].answered :
       summariesTbl[slug].totalPhotos.n >= 3

(***************************************************************************)
(* C17.  Decoupled ingestion leaves the old single table unchanged: every  *)
(* step of a run of the decoupled script, each of which writes to Photos,  *)
(* PhotoLogos or LogoSummaries or moves the script on, leaves the content  *)
(* of the single table as it was, so the table is the same after the run   *)
(* as before it.                                                           *)
(***************************************************************************)
C17_SingleTableUnchanged ==
  [][<<dbVars, ingestVars>>' # <<dbVars, ingestVars>> => singleTbl' = singleTbl]_vars

\* the single-table script filled its table, then the decoupled script ran
\* and wrote to each of its three tables
C17_Witness ==
  /\ singleTbl # <<>>
  /\ singleRun.pc = "done"
  /\ pc = "done"
  /\ photosTbl # <<>> /\ photoLogosTbl # <<>> /\ summariesTbl # <<>>

(***************************************************************************)
(* C18.  Multiple detections of the same logo in one photo are all kept:   *)
(* within one ingestion of a photo any two distinct detections get         *)
(* distinct mapping keys (logoSlug, photoId#detectionIndex), so that when  *)
(* the mappings of the photo are written none has overwritten another of   *)
(* the same photo, and each record is the mapping of one photo and one     *)
(* detection.                                                              *)
(***************************************************************************)
C18_DetectionsGetDistinctKeys ==
  pc = "summary" =>
    LET writes == mappingWrites(keys[idx], logos, clock)
    IN /\ \A i, j \in 1..Len(writes) :
            i # j => mappingKey(writes[i]) # mappingKey(writes[j])
       /\ Written(writes, photoLogosTbl)
       /\ \A i \in 1..Len(writes) :
            LET stored == photoLogosTbl[mappingKey(writes[i])]
            IN /\ stored.photoId = Str(keyToPhotoId(keys[idx]))
               /\ stored.detectionIndex = Num(logos[i].detectionIndex)
               /\ stored.logoName = Str(logos[i].name)

\* the mappings of a photo with two detections of the same logo are written
C18_Witness ==
  /\ pc = "summary"
  /\ Len(logos) = 2
  /\ logos[1].slug = logos[2].slug

(***************************************************************************)
(* C19.  Clicking a logo filters photos correctly: after any sequence of   *)
(* clicks on logo buttons and on "All photos", the gallery shows exactly   *)
(* the initial photos that have at least one logo whose slug is the        *)
(* selected one, in their initial order, and it shows all the initial      *)
(* photos when no logo is selected.                                        *)
(***************************************************************************)
\* the photo carries a logo of the slug
HasLogo(photo, slug) == \E i \in 1..Len(photo.logos) : photo.logos[i].slug = slug

C19_GalleryShowsPhotosOfSelectedLogo ==
  gallery # None =>
    gallery.shown =
      IF gallery.selectedLogo = Null THEN gallery.initialPhotos
      ELSE SelectSeq(gallery.initialPhotos,
                     LAMBDA photo : HasLogo(photo, gallery.selectedLogo.s))

(***************************************************************************)
(* C20.  The gallery load of the decoupled repository gets all photos and  *)
(* joins them with all mappings: for every content of the Photos and       *)
(* PhotoLogos tables, fetchAllPhotos returns every record of the Photos    *)
(* table exactly once, and the logos of each returned photo are exactly    *)
(* the PhotoLogos records whose photoId is the id of the photo.            *)
(***************************************************************************)
C20_FetchAllPhotosJoinsAllMappings ==
  (ReturnedPhotos /\ call.fn = "GET /api/photos") =>
    /\ Len(ret.value) = Cardinality(DOMAIN photosTbl)
    /\ {ret.value[i].id : i \in 1..Len(ret.value)} = DOMAIN photosTbl
    /\ \A i \in 1..Len(ret.value) :
         /\ Len(ret.value[i].logos)
              = Cardinality(MappingKeysOfPhoto(ret.value[i].id))
         /\ Range(ret.value[i].logos)
              = {mapLogoMapping(photoLogosTbl[k]) :
                   k \in MappingKeysOfPhoto(ret.value[i].id)}

(***************************************************************************)
(* C21.  One successful ingestion of a photo adds exactly 1 to totalPhotos *)
(* of each distinct slug detected in the photo, however many detections of *)
(* the slug the photo has, and leaves the summaries of all other slugs     *)
(* unchanged; a photo with no detections changes no summary and writes no  *)
(* mapping.                                                                *)
(***************************************************************************)
\* totalPhotos of the slug, 0 when the table has no summary of it
TotalOf(tbl, slug) == IF slug \in DOMAIN tbl THEN tbl[slug].totalPhotos.n ELSE 0

\* the updates still to send are the end of a list that names each slug of
\* the photo once
PendingNamesEachSlugOnce ==
  pc = "summary" =>
    LET all == slugSummaries(logos, <<>>)
    IN /\ pending # <<>>
       /\ \E n \in 1..Len(all) : pending = SubSeq(all, n, Len(all))
       /\ {all[i].slug : i \in 1..Len(all)} = {logos[i].slug : i \in 1..Len(logos)}
       /\ \A i, j \in 1..Len(all) : i # j => all[i].slug # all[j].slug

\* what a step does to the summaries: an UpdateCommand that answers adds 1
\* to the slug at the head of the list and touches no other summary, the
\* first update of a photo is the first of the list and the photo is stored
\* after the last, and every other step leaves the summaries alone
SummaryStepsAddOne ==
  /\ (pc = "summary" /\ throws' = throws) =>
       /\ TotalOf(summariesTbl', Head(pending).slug)
            = TotalOf(summariesTbl, Head(pending).slug) + 1
       /\ DOMAIN summariesTbl' = DOMAIN summariesTbl \cup {Head(pending).slug}
       /\ \A s \in DOMAIN summariesTbl \ {Head(pending).slug} :
            summariesTbl'[s] = summariesTbl[s]
       /\ IF Tail(pending) = <<>>
            THEN pc' = "loop" /\ idx' = idx + 1 /\ failed' = failed
            ELSE pc' = "summary" /\ pending' = Tail(pending)
  /\ ~(pc = "summary" /\ throws' = throws) => summariesTbl' = summariesTbl
  /\ (pc # "summary" /\ pc' = "summary") => pending' = slugSummaries(logos, <<>>)
  /\ (pc = "save" /\ Len(logos) = 0) =>
       /\ photoLogosTbl' = photoLogosTbl
       /\ summariesTbl' = summariesTbl
       /\ throws' = throws => pc' = "loop" /\ idx' = idx + 1

C21_IngestionAddsOnePerSlug ==
  []PendingNamesEachSlugOnce /\ [][SummaryStepsAddOne]_vars

\* a photo with two detections of one slug has been stored, and the summary
\* of the slug counts one photo
C21_Witness ==
  /\ pc = "loop" /\ run = 1 /\ idx > 1
  /\ keys[idx - 1] \notin failed
  /\ LET ls == detectLogos(vision[keys[idx - 1]])
     IN /\ Len(ls) = 2 /\ ls[1].slug = ls[2].slug
        /\ TotalOf(summariesTbl, ls[1].slug) = 1

(***************************************************************************)
(* C22.  When writeMappingBatch returns normally, every item of the batch  *)
(* it was given has been accepted by the database: each request after the  *)
(* first carries exactly the items the previous response reported as       *)
(* unprocessed, and the function returns only after a response with no     *)
(* unprocessed items; if the database eventually accepts every item it is  *)
(* sent, the function eventually returns.                                  *)
(***************************************************************************)
\* the batch the running call of writeMappingBatch was given
GivenBatch ==
  LET chunks == chunk(mappingWrites(keys[idx], logos, clock), BATCH_SIZE)
  IN chunks[Len(chunks) - Len(batches)]

\* the items of the sequence the table does not hold
NotWritten(items, tbl) ==
  SelectSeq(items, LAMBDA x : ~Written(<<x>>, tbl))

\* while the call runs, its request carries the items of the batch that no
\* response has accepted yet
RequestIsTheRest ==
  pc = "batch" =>
    /\ requestItems # <<>>
    /\ requestItems = NotWritten(GivenBatch, photoLogosTbl)

\* an answered request is followed by a request of exactly the items it left
\* unprocessed, or, when it left none, by the return, with the whole batch
\* in the table
AnswerIsFollowedUp ==
  BatchAnswered =>
    LET unprocessed == NotWritten(requestItems, photoLogosTbl')
    IN IF unprocessed # <<>>
         THEN /\ pc' = "batch"
              /\ batches' = batches
              /\ requestItems' = unprocessed
         ELSE /\ Written(GivenBatch, photoLogosTbl')
              /\ pc' = "summary" \/ requestItems' = Head(batches)

\* the database of the model accepts every item of the request numbered
\* MaxSends at the latest: the call ends, by a return or by a request that
\* throws
C22_BatchIsWrittenAndReturns ==
  /\ []RequestIsTheRest
  /\ [][AnswerIsFollowedUp]_vars
  /\ (pc = "batch") ~> (pc # "batch")

\* writeMappingBatch has returned from a batch of two items
C22_Witness ==
  /\ pc = "summary"
  /\ Len(GivenBatch) = 2
  /\ Written(GivenBatch, photoLogosTbl)

(***************************************************************************)
(* C23.  Referential integrity of the decoupled tables under partial       *)
(* failure: after any sequence of decoupled photo ingestions, each of      *)
(* which may fail after any of its writes, every PhotoLogos record has a   *)
(* photoId for which a Photos record exists, and every LogoSummaries       *)
(* record has a logoSlug for which at least one PhotoLogos record exists.  *)
(***************************************************************************)
C23_ReferentialIntegrity ==
  /\ \A k \in DOMAIN photoLogosTbl :
       /\ photoLogosTbl[k].photoId.t = "string"
       /\ photoLogosTbl[k].photoId.s \in DOMAIN photosTbl
       /\ photosTbl[photoLogosTbl[k].photoId.s].photoId = photoLogosTbl[k].photoId
  /\ \A slug \in DOMAIN summariesTbl :
       /\ summariesTbl[slug].logoSlug = Str(slug)
       /\ \E k \in DOMAIN photoLogosTbl : photoLogosTbl[k].logoSlug = Str(slug)

\* an ingestion has failed between its Photos record and its mappings, and
\* another one has written mappings and summaries
C23_Witness ==
  /\ pc \in {"loop", "done"}
  /\ photoLogosTbl # <<>>
  /\ summariesTbl # <<>>
  /\ \E key \in failed :
       /\ detectLogos(vision[key]) # <<>>
       /\ keyToPhotoId(key) \in DOMAIN photosTbl
       /\ \A k \in DOMAIN photoLogosTbl :
            photoLogosTbl[k].photoId # Str(keyToPhotoId(key))

(***************************************************************************)
(* C24.  Re-ingestion is idempotent on the Photos and PhotoLogos tables:   *)
(* running the decoupled ingestion twice over the same S3 keys with the    *)
(* same detection results leaves the Photos and PhotoLogos tables with the *)
(* same set of record keys, and the same photoId, s3Key, logoSlug,         *)
(* logoName, confidence and detectionIndex values, as running it once.     *)
(***************************************************************************)
\* the Photos and PhotoLogos tables one run over the keys leaves, when
\* every call answers and the tables were empty before
RECURSIVE OneRun(_, _, _, _)
OneRun(ks, photos, mappings, now) ==
  IF ks = <<>> THEN [photos |-> photos, mappings |-> mappings]
  ELSE LET ls == detectLogos(vision[Head(ks)])
       IN OneRun(Tail(ks),
                 PutItem(photos, keyToPhotoId(Head(ks)), photoItem(Head(ks), now + 1)),
                 PutAll(mappings, mappingWrites(Head(ks), ls, now + 1), 1..Len(ls)),
                 now + 1)

\* the records of the table, reduced to the attributes named
Project(tbl, attributes) ==
  [k \in DOMAIN tbl |-> [a \in attributes |-> tbl[k][a]]]

PhotoAttributes == {"photoId", "s3Key"}

MappingAttributes ==
  {"photoId", "logoSlug", "logoName", "confidence", "detectionIndex"}

\* every run so far has completed without an error
RunsComplete == pc = "done" /\ throws = 0 /\ run >= 1

C24_ReingestionIsIdempotent ==
  RunsComplete =>
    LET once == OneRun(listPhotos(bucket), <<>>, <<>>, 0)
    IN /\ Project(photosTbl, PhotoAttributes) = Project(once.photos, PhotoAttributes)
       /\ Project(photoLogosTbl, MappingAttributes)
            = Project(once.mappings, MappingAttributes)

\* the second run has completed and has written a mapping again
C24_Witness ==
  /\ RunsComplete
  /\ run = 2
  /\ \E k \in DOMAIN photoLogosTbl :
       photoLogosTbl[k].createdAt = Str(toISOString(clock))
  /\ \E k \in DOMAIN photosTbl :
       photosTbl[k].updatedAt # Str(toISOString(clock))

(***************************************************************************)
(* C25.  fetchPhotosByLogo is complete: for every table content, every     *)
(* photo that has at least one mapping for the queried slug and a record   *)
(* in the Photos table is returned, including when more photos match than  *)
(* one BatchGet request can carry or return.                               *)
(***************************************************************************)
\* fetchPhotosByLogo has returned a list
ReturnedByLogo ==
  /\ call # None
  /\ call.fn = "fetchPhotosByLogo"
  /\ ret # None
  /\ ret.ok

\* the photos with a record in Photos that a mapping of the slug names
PhotosWithLogo(slug) ==
  {id \in DOMAIN photosTbl :
     \E k \in DOMAIN photoLogosTbl :
       /\ k[1] = slug
       /\ photoLogosTbl[k].photoId = Str(id)}

C25_FetchPhotosByLogoIsComplete ==
  ReturnedByLogo =>
    \A id \in PhotosWithLogo(normalizeLogoName(call.arg)) :
      \E i \in 1..Len(ret.value) : ret.value[i].id = id

(***************************************************************************)
(* C26.  For every table content, fetchPhotosByLogo returns each photo id  *)
(* at most once, in the order in which the ids first appear in the mapping *)
(* query result, and the matchConfidence of a returned photo equals the    *)
(* maximum finite confidence over that photo's mappings for the queried    *)
(* slug (and is absent only if none of those mappings has a finite         *)
(* confidence).                                                            *)
(***************************************************************************)
\* the positions of the query result whose mapping names the photo
PositionsOf(mappingItems, id) ==
  {k \in 1..Len(mappingItems) : mappingItems[k].photoId = Str(id)}

\* the first of the positions
FirstOf(at) == CHOOSE x \in at : \A y \in at : x <= y

\* the finite confidences of the mappings at the positions
FiniteConfidences(mappingItems, at) ==
  {asNumber(mappingItems[k].confidence).n :
     k \in {x \in at : asNumber(mappingItems[x].confidence) # Undefined}}

C26_OncePerPhotoWithBestConfidence ==
  ReturnedByLogo =>
    LET mappingItems == Query(photoLogosTbl, normalizeLogoName(call.arg))
        value == ret.value
    IN /\ \A i \in 1..Len(value) : PositionsOf(mappingItems, value[i].id) # {}
       /\ \A i, j \in 1..Len(value) :
            i < j => /\ value[i].id # value[j].id
                     /\ FirstOf(PositionsOf(mappingItems, value[i].id))
                          < FirstOf(PositionsOf(mappingItems, value[j].id))
       /\ \A i \in 1..Len(value) :
            LET finite == FiniteConfidences(mappingItems,
                                            PositionsOf(mappingItems, value[i].id))
            IN IF finite = {}
                 THEN value[i].matchConfidence = Undefined
                 ELSE value[i].matchConfidence = Num(Max(finite))

\* a photo is returned whose first mapping of the slug has a higher
\* confidence than its second
C26_Witness ==
  /\ ReturnedByLogo
  /\ \E i \in 1..Len(ret.value) :
       LET mappingItems == Query(photoLogosTbl, normalizeLogoName(call.arg))
           at == PositionsOf(mappingItems, ret.value[i].id)
       IN /\ at = {1, 2}
          /\ mappingItems[1].confidence = Num(2)
          /\ mappingItems[2].confidence = Num(1)
          /\ ret.value[i].matchConfidence = Num(2)

====
